---- MODULE Spec2Model ----
(***************************************************************************)
(* A model of the snapshot diff layer (package snapshot, held in           *)
(* src/core/state_prefetcher.go lines 156-645): newDiffLayer / Update,     *)
(* rebloom, the bloom key mixing, the read path AccountRLP / Storage,      *)
(* flatten and the sorted key views; and a model of the peer set           *)
(* (package eth, src/eth/peerset.go): registerPeer, unregisterPeer,        *)
(* headPeers, close and the rendezvous of an eth peer with its snap and    *)
(* bsc extensions.                                                         *)
(*                                                                         *)
(* Go maps are reference values: flatten writes into the parent's maps in  *)
(* place and hands the same map objects to the layer it returns, and it    *)
(* moves a child's inner storage map into the parent's outer map.  The     *)
(* model therefore keeps the maps in a heap (accountMaps, storageMaps,     *)
(* slotMaps) and the layers hold indices into it.                          *)
(***************************************************************************)
EXTENDS Integers, Sequences, FiniteSets, TLC

VARIABLES
    bloomAccountHasherOffset,  \* package variable, set once by init()
    bloomStorageHasherOffset,  \* package variable, set once by init()
    layers,       \* the diffLayer objects ever allocated, by identity 1..Len
    accountMaps,  \* heap of map[common.Hash][]byte objects (accountData)
    storageMaps,  \* heap of outer map[common.Hash]map[...] objects: account -> slotMaps index
    slotMaps,     \* heap of inner map[common.Hash][]byte objects
    panicked,     \* the message of the panic that ended the run, "" while it runs
    rd,           \* the reading goroutine: its place in AccountRLP / Storage and its locals
    fl,           \* the flattening goroutine: its place in flatten and its locals
    rwlock,       \* diffLayer.lock of each layer: the read holds and the write hold
    preHeap,      \* the heap as it was before the flattening goroutine started
    fs,           \* two goroutines that flatten the two children of one layer
    ps,           \* the peerSet: its maps, snapPeers, closed, quitCh and who holds ps.lock
    gor,          \* the goroutines inside waitSnap/BscExtension and registerSnap/BscExtension
    lc,           \* the goroutines inside AccountList / StorageList: place and locals
    up,           \* the goroutine inside Update / newDiffLayer: place and arguments
    pf,           \* one Prefetch call: its dispatch loop, txChan, workers and interruptCh
    vj            \* the VoteJournal: its write-ahead log and the last WriteVote's result

vars == <<bloomAccountHasherOffset, bloomStorageHasherOffset, layers,
          accountMaps, storageMaps, slotMaps, panicked, rd, fl, rwlock, preHeap,
          fs, ps, gor, lc, up, pf, vj>>

\* the goroutines of the interleaved specification; the sequential one leaves them idle
threadVars == <<rd, fl, rwlock, preHeap, fs>>

heapVars == <<layers, accountMaps, storageMaps, slotMaps>>

\* the peer set and its goroutines; the diff layer specifications leave them idle
peerVars == <<ps, gor>>

-----------------------------------------------------------------------------
(* Bounds of the model *)

\* diffLayer objects allocated in one run (by newDiffLayer or by flatten)
MaxLayers == 5
\* Update calls in one run
MaxUpdates == 3
\* entries (account blobs plus storage accounts/slots) of one Update's delta
MaxDeltaEntries == 1
\* bits of the (scaled down) bloom filter
BloomM == 7
\* bits one key sets in the (scaled down) bloom filter
BloomK == 2

(* Program constants *)

\* common.HashLength
HashLength == 32
\* the width in bytes of the window binary.BigEndian.Uint64 reads
BloomWindow == 8
\* rand.Intn(25): the offsets lie in 0..24
OffsetRange == 25

-----------------------------------------------------------------------------
(* Hashes, blobs and the inputs the model draws *)

Byte == 0..255

\* A 32-byte hash whose first byte is b and whose last byte is c.
MkHash(b, c) == [i \in 1..HashLength |-> IF i = 1 THEN b ELSE IF i = HashLength THEN c ELSE 0]

\* The hashes of the model, by name, and the 32 bytes of each.
A1 == "A1"
A2 == "A2"
S1 == "S1"
S2 == "S2"

Accounts == {A1, A2}
Slots == {S1, S2}

HashBytes ==
    [h \in Accounts \cup Slots |->
        CASE h = A1 -> MkHash(1, 7)
          [] h = A2 -> MkHash(2, 7)
          [] h = S1 -> MkHash(1, 5)
          [] h = S2 -> MkHash(3, 5)]

Blobs == {<<>>, <<1>>}

\* The (account, storage) offsets init() may draw that the model explores: the
\* two ends of 0..24, crossed.  At offset 0 the windows of the hashes above
\* differ, at 24 they coincide.
OffsetChoices == {<<0, OffsetRange - 1>>, <<OffsetRange - 1, 0>>}

DiskId == 0
NoErr == "nil"
ErrSnapshotStale == "snapshot stale"
\* the messages of the panics
NoPanic == ""
PanicStaleParent == "parent diff layer is stale"
\* fmt.Sprintf("storage %#x nil", accountHash)
PanicStorageNil ==
    [a \in Accounts |->
        IF a = A1
        THEN "storage 0x0100000000000000000000000000000000000000000000000000000000000007 nil"
        ELSE "storage 0x0200000000000000000000000000000000000000000000000000000000000007 nil"]

-----------------------------------------------------------------------------
(* Generic helpers *)

SetToSeq(S) == CHOOSE f \in [1..Cardinality(S) -> S] : \A x \in S : \E i \in DOMAIN f : f[i] = x

RECURSIVE SumSeq(_)
SumSeq(s) == IF s = <<>> THEN 0 ELSE Head(s) + SumSeq(Tail(s))

\* The sum of f[k] over the domain of the function f.
SumOver(f) == LET ks == SetToSeq(DOMAIN f) IN SumSeq([i \in DOMAIN ks |-> f[ks[i]]])

\* Partial maps from K to V (a Go map with any key set drawn from K).
PartialMaps(K, V) == UNION {[T -> V] : T \in SUBSET K}

\* Bitwise exclusive or of two bytes.
RECURSIVE XorByte(_, _)
XorByte(a, b) ==
    IF a = 0 THEN b
    ELSE IF b = 0 THEN a
    ELSE (((a % 2) + (b % 2)) % 2) + (2 * XorByte(a \div 2, b \div 2))

-----------------------------------------------------------------------------
(* The deltas an Update may carry *)

DeltaWeight(d) ==
    Cardinality(DOMAIN d.accounts)
    + SumOver([a \in DOMAIN d.storage |->
                 IF DOMAIN d.storage[a] = {} THEN 1 ELSE Cardinality(DOMAIN d.storage[a])])

DeltasOfWeight(n) ==
    {d \in [accounts : PartialMaps(Accounts, Blobs),
            storage : PartialMaps(Accounts, PartialMaps(Slots, Blobs))] :
        DeltaWeight(d) <= n}

Deltas == DeltasOfWeight(MaxDeltaEntries)

\* A nil inner map, map[common.Hash][]byte(nil), as the value of an account
\* in a storage delta.
NilSlots == [nil |-> TRUE]

\* Ranging over a nil map visits nothing: its entries are those of an empty map.
SlotsOrEmpty(slots) == IF slots = NilSlots THEN << >> ELSE slots

\* The storage deltas with a nil inner map that an Update may carry: one
\* account mapped to nil, alone or beside an account with an empty inner map.
NilDeltas ==
    {[accounts |-> << >>, storage |-> st] :
        st \in {f \in PartialMaps(Accounts, {NilSlots, << >>}) :
                  Cardinality({a \in DOMAIN f : f[a] = NilSlots}) = 1}}

-----------------------------------------------------------------------------
(* The bloom filter (github.com/holiman/bloomfilter/v2), scaled down: a set of
   bit positions out of BloomM, BloomK of them per key.  A 64-bit key is kept
   as the 8 bytes binary.BigEndian.Uint64 read, most significant first. *)

RECURSIVE KeyMod(_, _)
\* The value of the big-endian key modulo BloomM.
KeyMod(key, acc) ==
    IF key = <<>> THEN acc ELSE KeyMod(Tail(key), ((acc * 256) + Head(key)) % BloomM)

BloomLocations(key) == {(KeyMod(key, 0) + i) % BloomM : i \in 0..(BloomK - 1)}

BloomNew == {}
BloomCopy(f) == f
BloomAddHash(f, key) == f \cup BloomLocations(key)
BloomContainsHash(f, key) == BloomLocations(key) \subseteq f

RECURSIVE BloomAddAll(_, _)
BloomAddAll(f, keys) ==
    IF keys = {} THEN f
    ELSE LET k == CHOOSE k \in keys : TRUE
         IN BloomAddAll(BloomAddHash(f, k), keys \ {k})

-----------------------------------------------------------------------------
(* Key mixing *)

\* binary.BigEndian.Uint64(h[off : off+8])
Uint64At(h, off) == [i \in 1..BloomWindow |-> h[off + i]]

XorUint64(x, y) == [i \in 1..BloomWindow |-> XorByte(x[i], y[i])]

accountBloomHash(h) == Uint64At(HashBytes[h], bloomAccountHasherOffset)

\* (a faulty variant of storageBloomHash: the account hash is read at the
\* account offset)
storageBloomHashMixed(h0, h1) ==
    XorUint64(Uint64At(HashBytes[h0], bloomAccountHasherOffset),
              Uint64At(HashBytes[h1], bloomStorageHasherOffset))

storageBloomHash(h0, h1) ==
    XorUint64(Uint64At(HashBytes[h0], bloomStorageHasherOffset),
              Uint64At(HashBytes[h1], bloomStorageHasherOffset))

-----------------------------------------------------------------------------
(* The heap: the diff layers and the map objects they point to *)

Heap == [layers |-> layers, accountMaps |-> accountMaps,
         storageMaps |-> storageMaps, slotMaps |-> slotMaps]

LayerIds(H) == 1..Len(H.layers)

IsDiff(id) == id # DiskId

\* dl.accountData and dl.storageData[a], dereferenced
AccountData(H, dl) == H.accountMaps[H.layers[dl].accountData]
StorageData(H, dl) == H.storageMaps[H.layers[dl].storageData]
SlotData(H, dl, a) == H.slotMaps[StorageData(H, dl)[a]]

NilAccountList == [isNil |-> TRUE, keys |-> <<>>]

\* (a faulty variant of DeltaMemory: the storage slots are charged without
\* their keys)
DeltaMemoryNoSlotKeys(accounts, storage) ==
    SumOver([h \in DOMAIN accounts |-> HashLength + Len(accounts[h])])
    + SumOver([a \in DOMAIN storage |->
                 LET slots == SlotsOrEmpty(storage[a])
                 IN SumOver([s \in DOMAIN slots |-> Len(slots[s])])])

\* The memory newDiffLayer charges for the delta: 32 + len(blob) per entry.
DeltaMemory(accounts, storage) ==
    SumOver([h \in DOMAIN accounts |-> HashLength + Len(accounts[h])])
    + SumOver([a \in DOMAIN storage |->
                 LET slots == SlotsOrEmpty(storage[a])
                 IN SumOver([s \in DOMAIN slots |-> HashLength + Len(slots[s])])])

\* The bloom keys of a delta: every account key and every (account, slot) key.
DeltaBloomKeys(accounts, storage) ==
    {accountBloomHash(h) : h \in DOMAIN accounts}
    \cup UNION {{storageBloomHash(a, s) : s \in DOMAIN SlotsOrEmpty(storage[a])} :
                  a \in DOMAIN storage}

\* (a faulty variant of rebloom: the parent's bloom is not copied)
rebloomFresh(H, parent, accounts, storage) ==
    BloomAddAll(BloomNew, DeltaBloomKeys(accounts, storage))

\* rebloom: the parent's bloom copied (a fresh one over the disk layer), then
\* every local key added.
rebloom(H, parent, accounts, storage) ==
    BloomAddAll(IF IsDiff(parent) THEN BloomCopy(H.layers[parent].diffed) ELSE BloomNew,
                DeltaBloomKeys(accounts, storage))

\* (a faulty variant of OriginOf: the parent is taken for the origin)
OriginOfParent(H, parent) == parent

\* newDiffLayer, lines 289-296: the origin handed to rebloom is the parent when
\* it is the disk layer, else the parent's origin.
OriginOf(H, parent) == IF IsDiff(parent) THEN H.layers[parent].origin ELSE parent

\* (a faulty variant of NilInnerMaps: no inner map is taken for nil)
NilInnerMapsNone(storage) == {}

\* newDiffLayer, lines 304-307: the accounts of the storage delta whose inner
\* map is nil.
NilInnerMaps(storage) == {a \in DOMAIN storage : storage[a] = NilSlots}

\* newDiffLayer(parent, root, accounts, storage): the heap with the new layer
\* and the caller's maps in it, and the new layer's identity.  With a nil
\* inner map in the delta the sanity loop panics after rebloom has filled the
\* new layer only: nothing is returned and the heap is as it was.
newDiffLayer(H, parent, root, accounts, storage) ==
    LET accts  == SetToSeq(DOMAIN storage)
        base   == Len(H.slotMaps)
        outer  == [a \in DOMAIN storage |->
                     base + (CHOOSE i \in DOMAIN accts : accts[i] = a)]
        dl     == [origin      |-> OriginOf(H, parent),
                   parent      |-> parent,
                   memory      |-> DeltaMemory(accounts, storage),
                   root        |-> root,
                   stale       |-> FALSE,
                   accountData |-> Len(H.accountMaps) + 1,
                   storageData |-> Len(H.storageMaps) + 1,
                   accountList |-> NilAccountList,
                   storageList |-> << >>,
                   diffed      |-> rebloom(H, parent, accounts, storage)]
    IN IF NilInnerMaps(storage) # {}
       THEN [heap |-> H, out |-> DiskId,
             panic |-> PanicStorageNil[CHOOSE a \in NilInnerMaps(storage) : TRUE]]
       ELSE [heap |-> [layers      |-> Append(H.layers, dl),
                       accountMaps |-> Append(H.accountMaps, accounts),
                       storageMaps |-> Append(H.storageMaps, outer),
                       slotMaps    |-> H.slotMaps \o [i \in DOMAIN accts |->
                                                        SlotsOrEmpty(storage[accts[i]])]],
             out  |-> Len(H.layers) + 1,
             panic |-> NoPanic]

-----------------------------------------------------------------------------
(* flatten *)

\* (a faulty variant of MapsCopy: entries the destination already holds are kept)
MapsCopyKeepDst(dst, src) ==
    [k \in DOMAIN dst \cup DOMAIN src |-> IF k \in DOMAIN dst THEN dst[k] ELSE src[k]]

\* maps.Copy(dst, src): every entry of src written into dst, overwriting.
MapsCopy(dst, src) ==
    [k \in DOMAIN dst \cup DOMAIN src |-> IF k \in DOMAIN src THEN src[k] ELSE dst[k]]

\* parent.stale.Swap(true): the value the flag held
StaleSwap(H, parent) == H.layers[parent].stale

\* (a faulty variant of ComboBloom: the parent's bloom is handed on)
ComboBloomOfParent(p, d) == p.diffed

\* diffed: dl.diffed, the bloom of the layer flatten returns
ComboBloom(p, d) == d.diffed

\* (a faulty variant of ComboMemory: the parent's share is left out)
ComboMemoryOfChild(p, d) == d.memory

\* flatten, line 586: memory: parent.memory + dl.memory
ComboMemory(p, d) == p.memory + d.memory

\* (a faulty variant of ComboParent: the returned layer is its own parent)
ComboParentSelf(H, p) == Len(H.layers) + 1

\* flatten, line 579: the returned layer takes the parent of the layer merged into
ComboParent(H, p) == p.parent

\* (a faulty variant of MergeOuter: the child's inner map replaces the parent's even
\* when the parent tracks the account)
MergeOuterOverwrite(pOuter, dOuter) ==
    [a \in DOMAIN pOuter \cup DOMAIN dOuter |->
        IF a \in DOMAIN dOuter THEN dOuter[a] ELSE pOuter[a]]

\* Lines 568-573: an account the parent does not track gets the child's inner
\* map itself (the same map object); the others keep the parent's.
MergeOuter(pOuter, dOuter) ==
    [a \in DOMAIN pOuter \cup DOMAIN dOuter |->
        IF a \in DOMAIN pOuter THEN pOuter[a] ELSE dOuter[a]]

\* Lines 574-575: for an account both track, the child's slots are copied into
\* the parent's inner map.
MergeSlots(slots, pOuter, dOuter) ==
    LET both == DOMAIN dOuter \cap DOMAIN pOuter
    IN [i \in DOMAIN slots |->
          IF \E a \in both : pOuter[a] = i
          THEN LET a == CHOOSE a \in both : pOuter[a] = i
               IN MapsCopy(slots[i], slots[dOuter[a]])
          ELSE slots[i]]

\* Lines 558-587: dl merged into parent (the flattened parent), which is
\* marked stale; the combo layer is allocated and returned.
MergeInto(H, parent, dl) ==
    IF StaleSwap(H, parent)
    THEN [heap |-> H, out |-> DiskId, panic |-> PanicStaleParent]
    ELSE
    LET p      == H.layers[parent]
        d      == H.layers[dl]
        pOuter == H.storageMaps[p.storageData]
        dOuter == H.storageMaps[d.storageData]
        combo  == [origin      |-> p.origin,
                   parent      |-> ComboParent(H, p),
                   memory      |-> ComboMemory(p, d),
                   root        |-> d.root,
                   stale       |-> FALSE,
                   accountData |-> p.accountData,
                   storageData |-> p.storageData,
                   accountList |-> NilAccountList,
                   storageList |-> << >>,
                   diffed      |-> ComboBloom(p, d)]
    IN [heap |->
          [layers      |-> Append([H.layers EXCEPT ![parent].stale = TRUE], combo),
           accountMaps |-> [H.accountMaps EXCEPT ![p.accountData] =
                               MapsCopy(@, H.accountMaps[d.accountData])],
           storageMaps |-> [H.storageMaps EXCEPT ![p.storageData] = MergeOuter(pOuter, dOuter)],
           slotMaps    |-> MergeSlots(H.slotMaps, pOuter, dOuter)],
        out |-> Len(H.layers) + 1,
        panic |-> NoPanic]

\* (a faulty variant of FlattenBase: a copy of the layer is allocated and returned)
FlattenBaseCopy(H, dl) ==
    [heap |-> [H EXCEPT !.layers = Append(@, H.layers[dl])],
     out |-> Len(H.layers) + 1, panic |-> NoPanic]

\* flatten, lines 549-552: the parent is not a diff layer, return dl
FlattenBase(H, dl) == [heap |-> H, out |-> dl, panic |-> NoPanic]

RECURSIVE flatten(_, _)
\* dl.flatten(): the parent is flattened first, then dl is merged into what
\* that returned.  A panic below unwinds through this call.
flatten(H, dl) ==
    LET parent == H.layers[dl].parent IN
    IF ~IsDiff(parent) THEN FlattenBase(H, dl)
    ELSE LET r == flatten(H, parent)
         IN IF r.panic # NoPanic THEN r
            ELSE MergeInto(r.heap, r.out, dl)

\* The diffLayer objects dl.flatten() allocates: one per diff parent below dl.
RECURSIVE Depth(_, _)
Depth(H, dl) == IF ~IsDiff(H.layers[dl].parent) THEN 0 ELSE 1 + Depth(H, H.layers[dl].parent)

-----------------------------------------------------------------------------
(* The disk layer at the bottom: an external collaborator with fixed content.
   A key the disk does not hold reads as a nil blob (length 0) and no error. *)

DiskAccounts == (A1 :> <<9>>)
DiskSlots == (<<A1, S1>> :> <<9>>)

DiskAccountRLP(hash) ==
    [err |-> NoErr, data |-> IF hash \in DOMAIN DiskAccounts THEN DiskAccounts[hash] ELSE <<>>,
     probed |-> {}, reached |-> {}, disk |-> TRUE]

DiskStorage(accountHash, storageHash) ==
    [err |-> NoErr,
     data |-> IF <<accountHash, storageHash>> \in DOMAIN DiskSlots
              THEN DiskSlots[<<accountHash, storageHash>>] ELSE <<>>,
     probed |-> {}, reached |-> {}, disk |-> TRUE]

-----------------------------------------------------------------------------
(* The read path.  A result records the error, the blob, the diff layers the
   walk entered (reached), those whose map it looked into (probed) and whether
   the disk layer was asked (disk). *)

StaleResult(dl) ==
    [err |-> ErrSnapshotStale, data |-> <<>>, probed |-> {}, reached |-> {dl}, disk |-> FALSE]

Probe(dl, r) == [r EXCEPT !.probed = @ \cup {dl}, !.reached = @ \cup {dl}]

RECURSIVE accountRLPSkipEmpty(_, _, _)
\* (a faulty variant of accountRLP: a zero-length blob is taken for a missing entry)
accountRLPSkipEmpty(H, dl, hash) ==
    IF H.layers[dl].stale THEN StaleResult(dl)
    ELSE IF hash \in DOMAIN AccountData(H, dl) /\ Len(AccountData(H, dl)[hash]) > 0
    THEN [err |-> NoErr, data |-> AccountData(H, dl)[hash],
          probed |-> {dl}, reached |-> {dl}, disk |-> FALSE]
    ELSE IF IsDiff(H.layers[dl].parent)
    THEN Probe(dl, accountRLPSkipEmpty(H, H.layers[dl].parent, hash))
    ELSE Probe(dl, DiskAccountRLP(hash))

RECURSIVE accountRLP(_, _, _)
\* dl.accountRLP(hash, depth): the walk through the maps, bloom already hit
accountRLP(H, dl, hash) ==
    IF H.layers[dl].stale THEN StaleResult(dl)
    ELSE IF hash \in DOMAIN AccountData(H, dl)
    THEN [err |-> NoErr, data |-> AccountData(H, dl)[hash],
          probed |-> {dl}, reached |-> {dl}, disk |-> FALSE]
    ELSE IF IsDiff(H.layers[dl].parent)
    THEN Probe(dl, accountRLP(H, H.layers[dl].parent, hash))
    ELSE Probe(dl, DiskAccountRLP(hash))

\* (a faulty variant of AccountRLP: the bloom filter is not asked)
AccountRLPNoBloom(H, dl, hash) ==
    IF H.layers[dl].stale THEN StaleResult(dl) ELSE accountRLP(H, dl, hash)

\* dl.AccountRLP(hash)
AccountRLP(H, dl, hash) ==
    IF H.layers[dl].stale THEN StaleResult(dl)
    ELSE IF ~BloomContainsHash(H.layers[dl].diffed, accountBloomHash(hash))
    THEN DiskAccountRLP(hash)
    ELSE accountRLP(H, dl, hash)

\* The errors of package rlp, and what wrapStreamError and addErrorContext
\* make of them for a field of types.SlimAccount.
ErrEOF == "EOF"
ErrExpectedString == "rlp: expected input string or byte"
ErrExpectedList == "rlp: expected input list"
ErrCanonInt == "rlp: non-canonical integer (leading zero bytes)"
ErrCanonSize == "rlp: non-canonical size information"
ErrElemTooLarge == "rlp: element is larger than containing list"
ErrValueTooLarge == "rlp: value size exceeds available input length"
ErrMoreThanOneValue == "rlp: input contains more than one value"
ErrUintOverflow == "rlp: input string too long"
ErrUint256Large == "rlp: value too large for uint256"
ErrTooFewElements == "rlp: too few elements for types.SlimAccount"
ErrTooManyElements == "rlp: input list has too many elements for types.SlimAccount"

\* wrapStreamError(err, typ): the stream errors that name the type they were
\* decoding into; the others pass unchanged
wrapStreamError(err, typ) ==
    IF err \in {ErrCanonInt, ErrCanonSize, ErrExpectedList, ErrExpectedString, ErrUintOverflow}
    THEN err \o " for " \o typ
    ELSE err

\* addErrorContext(err, ctx): only a wrapped error takes the field's name
addErrorContext(err, typ, field) ==
    IF wrapStreamError(err, typ) # err
    THEN wrapStreamError(err, typ) \o ", decoding into (types.SlimAccount)." \o field
    ELSE err

\* The header of the RLP item at data[pos], which may use the bytes up to
\* data[limit] (Stream.Kind and Stream.readKind on a stream limited to the
\* input, as DecodeBytes sets it up): the kind, and where the payload starts
\* and how long it is.  willRead refuses the length bytes of a long tag that
\* run past the limit before the reader is touched.  Kind then compares the
\* size, inside a list, with what was left of the list before the tag was
\* read, and when that admits it, or at top level, with what is left of the
\* input after the tag.  A size of four or more length bytes exceeds every
\* input of the model.
RlpHead(data, pos, limit, inList) ==
    LET b       == data[pos]
        tooBig  == IF inList THEN ErrElemTooLarge ELSE ErrValueTooLarge
        long    == b \in 184..191 \/ b >= 248
        lenlen  == IF b < 192 THEN b - 183 ELSE b - 247
        kind    == IF b < 128 THEN "byte" ELSE IF b < 192 THEN "string" ELSE "list"
        size    == IF b < 128 THEN 0
                   ELSE IF b < 184 THEN b - 128
                   ELSE IF b < 192 \/ b >= 248
                   THEN IF lenlen = 1 THEN data[pos + 1]
                        ELSE IF lenlen = 2 THEN data[pos + 1] * 256 + data[pos + 2]
                        ELSE data[pos + 1] * 65536 + data[pos + 2] * 256 + data[pos + 3]
                   ELSE b - 192
        start   == IF b < 128 THEN pos ELSE IF long THEN pos + 1 + lenlen ELSE pos + 1
        listLimit == limit - pos + 1
        remaining == Len(data) - start + 1
        fail(e) == [err |-> e, kind |-> kind, start |-> pos, size |-> 0]
    IN  IF long /\ pos + lenlen > limit THEN fail(tooBig)
        ELSE IF long /\ data[pos + 1] = 0 THEN fail(ErrCanonSize)
        ELSE IF long /\ lenlen >= 4 THEN fail(tooBig)
        ELSE IF long /\ size < 56 THEN fail(ErrCanonSize)
        ELSE IF b >= 128 /\ inList /\ size > listLimit THEN fail(ErrElemTooLarge)
        ELSE IF b >= 128 /\ size > remaining THEN fail(ErrValueTooLarge)
        ELSE [err |-> NoErr, kind |-> kind, start |-> start, size |-> size]

\* One field of the struct, read from data[pos] inside the list that ends at
\* data[end]: Stream.uint (maxLen 8), Stream.ReadUint256 (maxLen 32) or
\* Stream.Bytes (maxLen 0, any length).  A string longer than the integer
\* is refused before it is read; the read is refused by willRead when the
\* string runs past the list; a one-byte string below 128 is non-canonical
\* size information for every type, and a longer integer string must not begin
\* with a zero byte.  Integers are kept as their canonical big-endian bytes.
RlpField(data, pos, end, maxLen, typ, field) ==
    LET h       == RlpHead(data, pos, end, TRUE)
        bytes   == IF h.kind = "byte" THEN <<data[pos]>>
                   ELSE SubSeq(data, h.start, h.start + h.size - 1)
        next    == IF h.kind = "byte" THEN pos + 1 ELSE h.start + h.size
        fail(e) == [err |-> addErrorContext(e, typ, field), value |-> <<>>, next |-> pos]
        isInt   == maxLen > 0
    IN  IF pos > end THEN [err |-> ErrTooFewElements, value |-> <<>>, next |-> pos]
        ELSE IF h.err # NoErr THEN fail(h.err)
        ELSE IF h.kind = "list" THEN fail(ErrExpectedString)
        ELSE IF isInt /\ h.kind = "byte" /\ data[pos] = 0 THEN fail(ErrCanonInt)
        ELSE IF isInt /\ h.kind = "string" /\ h.size > maxLen
        THEN fail(IF maxLen = 8 THEN ErrUintOverflow ELSE ErrUint256Large)
        ELSE IF h.kind = "string" /\ h.size > end - h.start + 1 THEN fail(ErrElemTooLarge)
        ELSE IF h.kind = "string" /\ h.size = 1 /\ bytes[1] < 128 THEN fail(ErrCanonSize)
        ELSE IF isInt /\ h.kind = "string" /\ h.size > 0 /\ bytes[1] = 0 THEN fail(ErrCanonInt)
        ELSE [err |-> NoErr, value |-> bytes, next |-> next]

\* rlp.DecodeBytes(data, account) into a types.SlimAccount{Nonce uint64,
\* Balance *uint256.Int, Root []byte, CodeHash []byte}: a list of exactly four
\* strings that uses the whole input. The account is <<>> when there is an error.
DecodeSlimAccount(data) ==
    LET fail(e) == [err |-> e, account |-> <<>>]
        top     == RlpHead(data, 1, Len(data), FALSE)
        end     == top.start + top.size - 1
        nonce   == RlpField(data, top.start, end, 8, "uint64", "Nonce")
        balance == RlpField(data, nonce.next, end, 32, "*uint256.Int", "Balance")
        root    == RlpField(data, balance.next, end, 0, "[]uint8", "Root")
        code    == RlpField(data, root.next, end, 0, "[]uint8", "CodeHash")
    IN  IF Len(data) = 0 THEN fail(ErrEOF)
        ELSE IF top.err # NoErr THEN fail(wrapStreamError(top.err, "types.SlimAccount"))
        ELSE IF top.kind # "list" THEN fail(wrapStreamError(ErrExpectedList, "types.SlimAccount"))
        ELSE IF nonce.err # NoErr THEN fail(nonce.err)
        ELSE IF balance.err # NoErr THEN fail(balance.err)
        ELSE IF root.err # NoErr THEN fail(root.err)
        ELSE IF code.err # NoErr THEN fail(code.err)
        ELSE IF code.next <= end THEN fail(ErrTooManyElements)
        ELSE IF end < Len(data) THEN fail(ErrMoreThanOneValue)
        ELSE [err |-> NoErr,
              account |-> <<[Nonce |-> nonce.value, Balance |-> balance.value,
                             Root |-> root.value, CodeHash |-> code.value]>>]

\* dl.Account(hash): nil for an error and for a zero-length blob; a blob that
\* does not decode makes the call panic with the decoder's error (lines 385-387)
Account(H, dl, hash) ==
    LET r == AccountRLP(H, dl, hash)
        d == DecodeSlimAccount(r.data)
    IN IF r.err # NoErr THEN [err |-> r.err, account |-> <<>>, panic |-> NoPanic]
       ELSE IF Len(r.data) = 0 THEN [err |-> NoErr, account |-> <<>>, panic |-> NoPanic]
       ELSE IF d.err # NoErr THEN [err |-> NoErr, account |-> <<>>, panic |-> d.err]
       ELSE [err |-> NoErr, account |-> d.account, panic |-> NoPanic]


RECURSIVE storage(_, _, _, _)
\* dl.storage(accountHash, storageHash, depth)
storage(H, dl, accountHash, storageHash) ==
    IF H.layers[dl].stale THEN StaleResult(dl)
    ELSE IF /\ accountHash \in DOMAIN StorageData(H, dl)
            /\ storageHash \in DOMAIN SlotData(H, dl, accountHash)
    THEN [err |-> NoErr, data |-> SlotData(H, dl, accountHash)[storageHash],
          probed |-> {dl}, reached |-> {dl}, disk |-> FALSE]
    ELSE IF IsDiff(H.layers[dl].parent)
    THEN Probe(dl, storage(H, H.layers[dl].parent, accountHash, storageHash))
    ELSE Probe(dl, DiskStorage(accountHash, storageHash))

\* dl.Storage(accountHash, storageHash)
Storage(H, dl, accountHash, storageHash) ==
    IF H.layers[dl].stale THEN StaleResult(dl)
    ELSE IF ~BloomContainsHash(H.layers[dl].diffed, storageBloomHash(accountHash, storageHash))
    THEN DiskStorage(accountHash, storageHash)
    ELSE storage(H, dl, accountHash, storageHash)

\* What a read hands its caller: the error and the blob.
ReadValue(r) == [err |-> r.err, data |-> r.data]

-----------------------------------------------------------------------------
(* The sorted key views: what AccountList and StorageList return *)

RECURSIVE BytesLess(_, _)
\* bytes.Compare(x, y) < 0 for byte strings of one length
BytesLess(x, y) ==
    IF x = <<>> THEN FALSE
    ELSE IF Head(x) # Head(y) THEN Head(x) < Head(y)
    ELSE BytesLess(Tail(x), Tail(y))

\* common.Hash.Cmp(a, b) < 0
HashLess(a, b) == BytesLess(HashBytes[a], HashBytes[b])

\* maps.Keys followed by slices.SortFunc(common.Hash.Cmp): the keys ascending
SortedKeys(S) ==
    CHOOSE f \in [1..Cardinality(S) -> S] :
        /\ \A x \in S : \E i \in DOMAIN f : f[i] = x
        /\ \A i, j \in DOMAIN f : i < j => HashLess(f[i], f[j])

\* dl.AccountList(): the cached list, or the keys of the account map sorted
AccountListOf(H, dl) ==
    IF ~H.layers[dl].accountList.isNil THEN H.layers[dl].accountList.keys
    ELSE SortedKeys(DOMAIN AccountData(H, dl))

\* dl.StorageList(accountHash): nil for an account the layer does not track,
\* else the cached list, or the slot keys of the account sorted
StorageListOf(H, dl, accountHash) ==
    IF accountHash \notin DOMAIN StorageData(H, dl) THEN [isNil |-> TRUE, keys |-> <<>>]
    ELSE IF accountHash \in DOMAIN H.layers[dl].storageList
    THEN [isNil |-> FALSE, keys |-> H.layers[dl].storageList[accountHash]]
    ELSE [isNil |-> FALSE, keys |-> SortedKeys(DOMAIN SlotData(H, dl, accountHash))]

-----------------------------------------------------------------------------
(* The peer set (src/eth/peerset.go): the state newPeerSet() returns and the
   goroutines of the extension rendezvous before any has been started *)

\* The peer ids, the two satellite protocols, the eth-side goroutines (they
\* call waitSnapExtension / waitBscExtension) and the extension-side
\* goroutines (they call registerSnapExtension / registerBscExtension).
NumWaiters == 1
NumRegisterers == 1
PeerIds == {"p1", "p2"}
Protos == {"snap", "bsc"}
Waiters == 1..NumWaiters
Registerers == (NumWaiters + 1)..(NumWaiters + NumRegisterers)

\* a nil *snap.Peer / *bsc.Peer, a nil channel, the free ps.lock
NilExt == 0
NoChan == 0
Unlocked == 0

\* newPeerSet(), lines 93-102
NewPeerSet ==
    [peers |-> << >>, snapPeers |-> 0,
     snapWait |-> << >>, snapPend |-> << >>,
     bscWait |-> << >>, bscPend |-> << >>,
     lock |-> Unlocked, closed |-> FALSE, quitCh |-> "open"]

\* A goroutine that has made no call yet.
IdleGoroutine ==
    [pc |-> "idle", proto |-> "", id |-> "", ext |-> NilExt, ch |-> NoChan,
     calls |-> 0, peer |-> NilExt, err |-> NoErr]

\* The goroutines that call AccountList / StorageList side by side.
NumListCallers == 2
ListCallers == 1..NumListCallers

\* A goroutine outside AccountList / StorageList: the layer and the account
\* of its call ("" for AccountList), the list it read from the cache under
\* the read lock, the list it returned, and the calls it has made.
IdleListCaller == [pc |-> "idle", dl |-> DiskId, account |-> "", list |-> NilAccountList,
                   out |-> NilAccountList, calls |-> 0]

\* The goroutine outside Update: the parent and the delta of its call.
IdleUpdater == [pc |-> "idle", parent |-> DiskId, accounts |-> << >>, storage |-> << >>]

\* No Prefetch call is running.
IdlePrefetch == [pc |-> "idle", transactions |-> << >>, i |-> 0, txChan |-> << >>,
                 workers |-> << >>, interruptCh |-> "open"]

\* An empty write-ahead log, as wal.Open makes it.
EmptyLog == [firstIndex |-> 1, lastIndex |-> 0, entries |-> << >>]

\* No vote journal is open. written keeps every entry ever put in the log, prevLast
\* the last index the latest WriteVote read, truncateErr whether its TruncateFront
\* returned an error, calls the number of WriteVote calls.
IdleJournal == [pc |-> "none", walLog |-> EmptyLog, voteDataBuffer |-> << >>,
                written |-> << >>, err |-> "nil", prevLast |-> 0,
                truncateErr |-> FALSE, calls |-> 0]

PeersIdle ==
    /\ ps = NewPeerSet
    /\ gor = [g \in Waiters \cup Registerers |-> IdleGoroutine]

-----------------------------------------------------------------------------
(* The operations *)

Running == panicked = NoPanic

\* The roots an Update may be given: block roots are labels the layer only
\* carries, and the tree never registers one twice; one fresh root stands for them.
FreshRoots(H) == {Len(H.layers) + 1}

\* The layers Update made (a layer flatten returns carries its child's root).
NumUpdates(H) == Cardinality({i \in LayerIds(H) : H.layers[i].root = i})

EmptyHeap == [layers |-> <<>>, accountMaps |-> <<>>, storageMaps |-> <<>>, slotMaps |-> <<>>]

\* A goroutine that has not been started.
IdleReader == [pc |-> "idle", start |-> DiskId, key |-> <<>>, cur |-> DiskId,
               held |-> <<>>, hit |-> FALSE, res |-> [err |-> NoErr, data |-> <<>>]]
IdleFlattener == [pc |-> "idle", dl |-> DiskId, parent |-> DiskId, accts |-> {},
                  stor |-> {}, cura |-> "", slots |-> {}, out |-> DiskId, todo |-> <<>>]
\* The two goroutines of the specification in which the children of one layer
\* are flattened side by side; the other specifications leave them idle.
Siblings == 1..2
IdleSiblings == [g \in Siblings |-> IdleFlattener]

Init ==
    /\ PeersIdle
    /\ lc = [c \in ListCallers |-> IdleListCaller]
    /\ up = IdleUpdater
    /\ pf = IdlePrefetch
    /\ vj = IdleJournal
    /\ \E offs \in OffsetChoices :
          /\ bloomAccountHasherOffset = offs[1]
          /\ bloomStorageHasherOffset = offs[2]
    /\ layers = <<>>
    /\ accountMaps = <<>>
    /\ storageMaps = <<>>
    /\ slotMaps = <<>>
    /\ panicked = NoPanic
    /\ rd = IdleReader
    /\ fl = IdleFlattener
    /\ fs = IdleSiblings
    /\ rwlock = <<>>
    /\ preHeap = EmptyHeap

SetHeap(H) ==
    /\ layers' = H.layers
    /\ accountMaps' = H.accountMaps
    /\ storageMaps' = H.storageMaps
    /\ slotMaps' = H.slotMaps

\* parent.Update(blockRoot, accounts, storage), parent a diff layer or the disk layer
Update(parent, root, delta) ==
    /\ Running
    /\ Len(layers) + Len(fl.todo) < MaxLayers
    /\ LET r == newDiffLayer(Heap, parent, root, delta.accounts, delta.storage)
       IN /\ SetHeap(r.heap)
          /\ panicked' = r.panic
    /\ UNCHANGED <<peerVars, pf, vj, lc, up, bloomAccountHasherOffset, bloomStorageHasherOffset, threadVars>>

\* (a faulty variant of MergeOrder: only the outermost call merges)
MergeOrderShallow(H, dl) == IF ~IsDiff(H.layers[dl].parent) THEN <<>> ELSE <<dl>>

RECURSIVE MergeOrder(_, _)
\* The layers the nested calls of dl.flatten() merge, in the order of the
\* merges: the recursion of line 555 goes down to the layer that sits on the
\* disk layer, which returns itself, and every call above it then merges its
\* own layer into what the call below returned.
MergeOrder(H, dl) ==
    IF ~IsDiff(H.layers[dl].parent) THEN <<>>
    ELSE Append(MergeOrder(H, H.layers[dl].parent), dl)

\* The layer that sits on the disk layer below dl.
Bottom(H, dl) == IF MergeOrder(H, dl) = <<>> THEN dl ELSE H.layers[MergeOrder(H, dl)[1]].parent

\* dl.flatten() up to the first Unlock.  Over the disk layer it returns dl at
\* once (lines 549-552).  Else the calls nest down the parents (line 555), which
\* reads fields no step ever changes and takes no lock, and the innermost
\* merging call runs its critical section, lines 558-587.  The merges of the
\* calls above it are left to do, each under the write lock of the layer the
\* call below returned.  One goroutine flattens at a time.
Flatten(dl) ==
    /\ Running
    /\ fl.pc = "idle"
    /\ Len(layers) + Depth(Heap, dl) <= MaxLayers
    /\ IF ~IsDiff(layers[dl].parent)
       THEN LET r == FlattenBase(Heap, dl)
            IN /\ SetHeap(r.heap)
               /\ panicked' = r.panic
               /\ UNCHANGED <<fl, preHeap>>
       ELSE LET order == MergeOrder(Heap, dl)
                r     == MergeInto(Heap, Bottom(Heap, dl), Head(order))
            IN /\ SetHeap(r.heap)
               /\ panicked' = r.panic
               /\ IF r.panic = NoPanic /\ Tail(order) # <<>>
                  THEN /\ fl' = [IdleFlattener EXCEPT !.pc = "merge", !.dl = dl,
                                                      !.parent = r.out,
                                                      !.todo = Tail(order)]
                       /\ preHeap' = Heap
                  ELSE UNCHANGED <<fl, preHeap>>
    /\ UNCHANGED <<rd, rwlock, fs>>
    /\ UNCHANGED <<peerVars, pf, vj, lc, up, bloomAccountHasherOffset, bloomStorageHasherOffset>>

\* The next of the nested calls takes the write lock of the layer the call
\* below it returned, merges its own layer into it, unlocks and returns the
\* merged layer (lines 558-587); between the Unlock of the call below and this
\* Lock any other goroutine may run.  The outermost call returns to the caller.
FlattenMerge ==
    /\ Running
    /\ fl.pc = "merge"
    /\ LET r == MergeInto(Heap, fl.parent, Head(fl.todo))
       IN /\ SetHeap(r.heap)
          /\ panicked' = r.panic
          /\ IF r.panic = NoPanic /\ Tail(fl.todo) # <<>>
             THEN /\ fl' = [fl EXCEPT !.parent = r.out, !.todo = Tail(@)]
                  /\ UNCHANGED preHeap
             ELSE /\ fl' = IdleFlattener
                  /\ preHeap' = EmptyHeap
    /\ UNCHANGED <<rd, rwlock, fs>>
    /\ UNCHANGED <<peerVars, pf, vj, lc, up, bloomAccountHasherOffset, bloomStorageHasherOffset>>

Next ==
    \/ /\ NumUpdates(Heap) < MaxUpdates
       /\ \E parent \in {DiskId} \cup LayerIds(Heap), delta \in Deltas \cup NilDeltas :
             \E root \in FreshRoots(Heap) : Update(parent, root, delta)
    \/ \E dl \in LayerIds(Heap) : Flatten(dl)
    \/ FlattenMerge

Spec == Init /\ [][Next]_vars

-----------------------------------------------------------------------------
(* The interleaved specification: one goroutine reads a key again and again
   through the chain disk <- D0 <- D1 (and through the layer flatten returns,
   once it has), while
   another runs D1.flatten().  Every lock operation, every map lookup and
   every single map write is a step of its own.

   A Go map read that is concurrent with a write to the same map is a data
   race: the runtime may stop the process ("concurrent map read and map
   write") or the read may yield anything. *)

\* entries of the delta of D1 in the interleaved specification
ConcDeltaEntries == 2

ConcDeltas == DeltasOfWeight(ConcDeltaEntries)

\* The key the reader asks for, <<account>> or <<account, slot>>: the account
\* and the slot the disk layer holds, which the two deltas may or may not touch.
ReadKeys == {<<A1>>, <<A1, S1>>}

FatalConcurrentMap == "fatal error: concurrent map read and map write"
FatalConcurrentIteration == "fatal error: concurrent map iteration and map write"

\* What the read of a []byte map value may show beside the store of it.  A
\* slice header is three words and the store is not atomic: the read may show
\* the nil blob (the key inserted, its value not yet stored) or the pointer of
\* one blob with the length of another, hence bytes that are in no map.  One
\* blob for each result the decoder has for such bytes: "EOF", "expected
\* input list", "value size exceeds available input length", and an account.
TornBlobs == {<<>>, <<1>>, <<255>>, <<196, 128, 128, 128, 128>>}

\* What the lookup of line 453 (data, ok := dl.accountData[hash]) or of lines
\* 517-518 may do beside a write of the same map: the runtime stops the
\* process (a fatal error, which no recover catches), the key is not found,
\* or it is found with a blob of a map or with a torn one.
RaceOutcomes ==
    {[found |-> FALSE, data |-> <<>>, fatal |-> FatalConcurrentMap],
     [found |-> FALSE, data |-> <<>>, fatal |-> NoPanic]}
      \cup {[found |-> TRUE, data |-> b, fatal |-> NoPanic] : b \in Blobs \cup TornBlobs}

\* The map objects the merge of dl into parent writes, lines 566-575: the
\* parent's account map when dl has an account entry, the parent's outer
\* storage map when dl tracks an account the parent does not (line 571), and
\* the parent's inner map of every account both track when dl holds a slot of
\* it (line 575).  A stale parent stops the merge before its first write.
MergeWrites(H, parent, dl) ==
    LET pOuter == StorageData(H, parent)
        dOuter == StorageData(H, dl)
    IN IF StaleSwap(H, parent) THEN [accounts |-> {}, outer |-> {}, inner |-> {}]
       ELSE [accounts |-> IF DOMAIN AccountData(H, dl) # {}
                          THEN {H.layers[parent].accountData} ELSE {},
             outer    |-> IF DOMAIN dOuter \ DOMAIN pOuter # {}
                          THEN {H.layers[parent].storageData} ELSE {},
             inner    |-> {pOuter[a] : a \in {b \in DOMAIN dOuter \cap DOMAIN pOuter :
                                                 DOMAIN SlotData(H, dl, b) # {}}}]

\* The critical section the flattening goroutine may be in beside a step of
\* another goroutine, as the layer merged into and the layer merged: the next
\* merge of the call under way, or the first merge of a call it may begin.
MergesAhead ==
    IF fl.pc = "merge" THEN {<<fl.parent, Head(fl.todo)>>}
    ELSE {<<Bottom(Heap, d), Head(MergeOrder(Heap, d))>> :
             d \in {l \in LayerIds(Heap) : /\ IsDiff(layers[l].parent)
                                           /\ Len(layers) + Depth(Heap, l) <= MaxLayers}}

\* A goroutine that holds the lock of dl reads the map object obj (of the given
\* sort) while a merge may write it under the lock of another layer: flatten
\* hands the maps of the layer merged into to the layer it returns (lines
\* 582-583) and the child's inner maps to the parent (line 571), so one map
\* object is reached through several layers, each with a lock of its own.
ReadRacesMerge(dl, sort, obj) ==
    \E m \in MergesAhead : m[1] # dl /\ obj \in MergeWrites(Heap, m[1], m[2])[sort]

\* The account maps the range of line 398 may go over: dl's own map, and,
\* beside a merge that writes the same map object under another lock
\* (maps.Copy, line 566), the map with any part of the child's entries
\* written, each read whole (the child's blob) or torn (TornBlobs, the nil
\* blob of a key whose value is not yet stored among them); a key that is not
\* written yet shows what the map held.
AccountViews(dl) ==
    LET own == AccountData(Heap, dl)
        racing == {m \in MergesAhead :
                      /\ m[1] # dl
                      /\ layers[dl].accountData \in MergeWrites(Heap, m[1], m[2]).accounts}
        seen(ch, k) == {ch[k]} \cup TornBlobs
        reads(ch, S) == {w \in [S -> UNION {seen(ch, k) : k \in S}] :
                            \A k \in S : w[k] \in seen(ch, k)}
        views(ch) == UNION {{[k \in DOMAIN own \cup S |-> IF k \in S THEN w[k] ELSE own[k]] :
                                w \in reads(ch, S)} :
                            S \in SUBSET DOMAIN ch}
    IN {own} \cup UNION {views(AccountData(Heap, m[2])) : m \in racing}

\* dl.Accounts(), lines 393-407, called in the current state: every entry of
\* the account map, decoded; the error of the first entry that does not
\* decode, in the order the map is ranged over, which Go leaves open.  The
\* call never reads dl.stale.  Beside a merge that writes the map the process
\* may end instead: the runtime detects the race, or the decoder reads
\* through a torn slice header of nil pointer and positive length.  The set
\* of the results the call may give; fatal is how the process ended, if it did.
AccountsOf(dl) ==
    LET decoded(view) ==
            LET failing == {h \in DOMAIN view : DecodeSlimAccount(view[h]).err # NoErr}
            IN IF failing # {}
               THEN {[err |-> DecodeSlimAccount(view[h]).err, accounts |-> << >>,
                      fatal |-> NoPanic] : h \in failing}
               ELSE {[err |-> NoErr,
                      accounts |-> [h \in DOMAIN view |-> DecodeSlimAccount(view[h]).account],
                      fatal |-> NoPanic]}
    IN UNION {decoded(view) : view \in AccountViews(dl)}
          \cup (IF ReadRacesMerge(dl, "accounts", layers[dl].accountData)
                THEN {[err |-> NoErr, accounts |-> << >>, fatal |-> f] :
                         f \in {FatalConcurrentIteration,
                                "panic: runtime error: invalid memory address or nil pointer dereference"}}
                ELSE {})

FreeLock == [readers |-> 0, writer |-> FALSE]

\* (a faulty variant of WriteLockFree: Lock returns whoever holds the lock)
WriteLockFreeAlways(l) == TRUE

\* sync.RWMutex: Lock returns once no reader and no writer holds the lock
WriteLockFree(l) == rwlock[l].readers = 0 /\ ~rwlock[l].writer

\* sync.RWMutex: RLock returns once no writer holds the lock
ReadLockFree(l) == ~rwlock[l].writer

RLock(L, l) == [L EXCEPT ![l].readers = @ + 1]
RUnlock(L, l) == [L EXCEPT ![l].readers = @ - 1]

\* The disk layer's answer for a key.
DiskRead(key) ==
    IF Len(key) = 1 THEN ReadValue(DiskAccountRLP(key[1]))
    ELSE ReadValue(DiskStorage(key[1], key[2]))

\* dl.diffed.ContainsHash of the mixed key
BloomHit(dl, key) ==
    IF Len(key) = 1
    THEN BloomContainsHash(layers[dl].diffed, accountBloomHash(key[1]))
    ELSE BloomContainsHash(layers[dl].diffed, storageBloomHash(key[1], key[2]))

\* The flattening goroutine is inside its writes to a map the lookup reads.
LookupRaces(dl, key) ==
    /\ fl.parent # DiskId
    /\ IF Len(key) = 1
       THEN /\ fl.pc = "accounts"
            /\ layers[fl.parent].accountData = layers[dl].accountData
       ELSE \/ /\ fl.pc \in {"storage", "slots"}
               /\ layers[fl.parent].storageData = layers[dl].storageData
            \/ /\ fl.pc = "slots"
               /\ key[1] \in DOMAIN StorageData(Heap, dl)
               /\ StorageData(Heap, dl)[key[1]] = StorageData(Heap, fl.parent)[fl.cura]

\* The key is in the maps of dl.
LookupFound(dl, key) ==
    IF Len(key) = 1 THEN key[1] \in DOMAIN AccountData(Heap, dl)
    ELSE /\ key[1] \in DOMAIN StorageData(Heap, dl)
         /\ key[2] \in DOMAIN SlotData(Heap, dl, key[1])

LookupData(dl, key) ==
    IF Len(key) = 1 THEN AccountData(Heap, dl)[key[1]]
    ELSE SlotData(Heap, dl, key[1])[key[2]]

ReaderOnly == UNCHANGED <<peerVars, pf, vj, lc, up, bloomAccountHasherOffset, bloomStorageHasherOffset, heapVars,
                          panicked, fl, preHeap, fs>>

\* The layers the reader reads through: D1, and the layer D1.flatten() returned
\* once the reader can have it.
ReadStarts == {fl.dl} \cup (IF fl.pc = "returned" THEN {fl.out} ELSE {})

\* a call of dl.AccountRLP(hash) or dl.Storage(accountHash, storageHash) for the
\* reader's key begins, the first or the one after a call that returned
ReadBegin(start) ==
    /\ Running
    /\ rd.pc \in {"idle", "done"}
    /\ rd' = [IdleReader EXCEPT !.pc = "top_rlock", !.start = start, !.key = rd.key, !.cur = start]
    /\ UNCHANGED rwlock
    /\ ReaderOnly

\* AccountRLP / Storage: dl.lock.RLock(); if dl.Stale() { RUnlock; return
\* ErrSnapshotStale }, else the bloom filter is asked.  The flag of a layer is
\* set only under the layer's write lock, so the load is taken with the lock.
ReadTopRLock ==
    /\ Running
    /\ rd.pc = "top_rlock"
    /\ ReadLockFree(rd.start)
    /\ IF layers[rd.start].stale
       THEN /\ rd' = [rd EXCEPT !.pc = "done",
                                !.res = [err |-> ErrSnapshotStale, data |-> <<>>]]
            /\ UNCHANGED rwlock
       ELSE /\ rd' = [rd EXCEPT !.pc = "top_runlock", !.hit = BloomHit(rd.start, rd.key)]
            /\ rwlock' = RLock(rwlock, rd.start)
    /\ ReaderOnly

\* (a faulty variant of ReadTopRUnlock: the lock of the bloom filter test is
\* kept through the walk)
ReadTopKeepsLock ==
    /\ Running
    /\ rd.pc = "top_runlock"
    /\ rd' = [rd EXCEPT !.pc = IF rd.hit THEN "walk_rlock" ELSE "origin"]
    /\ UNCHANGED rwlock
    /\ ReaderOnly

\* AccountRLP / Storage: dl.lock.RUnlock(), then the disk layer or the maps
ReadTopRUnlock ==
    /\ Running
    /\ rd.pc = "top_runlock"
    /\ rwlock' = RUnlock(rwlock, rd.start)
    /\ rd' = [rd EXCEPT !.pc = IF rd.hit THEN "walk_rlock" ELSE "origin"]
    /\ ReaderOnly

\* the bloom filter missed: origin.AccountRLP / origin.Storage
ReadOrigin ==
    /\ Running
    /\ rd.pc = "origin"
    /\ rd' = [rd EXCEPT !.pc = "done", !.res = DiskRead(rd.key)]
    /\ UNCHANGED rwlock
    /\ ReaderOnly

\* accountRLP / storage: dl.lock.RLock(), released only when the call
\* returns; if dl.Stale() { return ErrSnapshotStale }
ReadWalkRLock ==
    /\ Running
    /\ rd.pc = "walk_rlock"
    /\ ReadLockFree(rd.cur)
    /\ rwlock' = RLock(rwlock, rd.cur)
    /\ rd' = IF layers[rd.cur].stale
             THEN [rd EXCEPT !.pc = "walk_return", !.held = <<rd.cur>> \o @,
                             !.res = [err |-> ErrSnapshotStale, data |-> <<>>]]
             ELSE [rd EXCEPT !.pc = "walk_lookup", !.held = <<rd.cur>> \o @]
    /\ ReaderOnly

\* accountRLP / storage: the lookup in the maps of the layer (lines 453 and
\* 517-518); a hit returns the blob, a miss goes on to the parent (lines
\* 464-469), the locks still held.  Beside a write of the same map the lookup
\* is a data race: it may hit or miss whatever the map holds, and the runtime
\* may end the process, after which no goroutine takes a step.
ReadWalkLookup ==
    /\ Running
    /\ rd.pc = "walk_lookup"
    /\ \E o \in IF LookupRaces(rd.cur, rd.key) THEN RaceOutcomes
                 ELSE {[found |-> LookupFound(rd.cur, rd.key),
                        data  |-> IF LookupFound(rd.cur, rd.key)
                                  THEN LookupData(rd.cur, rd.key) ELSE <<>>,
                        fatal |-> NoPanic]} :
          IF o.fatal # NoPanic
          THEN /\ panicked' = o.fatal
               /\ UNCHANGED rd
          ELSE /\ UNCHANGED panicked
               /\ rd' = IF o.found
                        THEN [rd EXCEPT !.pc = "walk_return",
                                        !.res = [err |-> NoErr, data |-> o.data]]
                        ELSE IF IsDiff(layers[rd.cur].parent)
                        THEN [rd EXCEPT !.pc = "walk_rlock", !.cur = layers[rd.cur].parent]
                        ELSE [rd EXCEPT !.pc = "walk_disk"]
    /\ UNCHANGED <<rwlock, peerVars, pf, vj, lc, up, bloomAccountHasherOffset,
                   bloomStorageHasherOffset, heapVars, fl, preHeap, fs>>

\* accountRLP / storage: dl.parent.AccountRLP / dl.parent.Storage on the disk layer
ReadWalkDisk ==
    /\ Running
    /\ rd.pc = "walk_disk"
    /\ rd' = [rd EXCEPT !.pc = "walk_return", !.res = DiskRead(rd.key)]
    /\ UNCHANGED rwlock
    /\ ReaderOnly

\* one of the nested accountRLP / storage calls returns and its deferred
\* RUnlock runs (lines 444 / 508): the call on the deepest layer first, its
\* caller next, and the read is done when the outermost has returned
ReadWalkReturn ==
    /\ Running
    /\ rd.pc = "walk_return"
    /\ rd.held # <<>>
    /\ rwlock' = RUnlock(rwlock, Head(rd.held))
    /\ rd' = [rd EXCEPT !.pc = IF Tail(rd.held) = <<>> THEN "done" ELSE "walk_return",
                        !.held = Tail(@)]
    /\ ReaderOnly

\* Where flatten goes once the accounts in accts and the storage accounts in
\* stor are left to copy.
FlattenPhase(accts, stor) ==
    IF accts # {} THEN "accounts" ELSE IF stor # {} THEN "storage" ELSE "combo"

\* flatten, lines 549-556: the parent is a diff layer sitting on the disk layer,
\* so parent.flatten() returns the parent itself
FlattenBegin ==
    /\ Running
    /\ fl.pc = "idle"
    /\ fl.dl # DiskId
    /\ IsDiff(layers[fl.dl].parent)
    /\ ~IsDiff(layers[layers[fl.dl].parent].parent)
    /\ fl' = [fl EXCEPT !.pc = "lock", !.parent = layers[fl.dl].parent]
    /\ UNCHANGED <<peerVars, pf, vj, lc, up, bloomAccountHasherOffset, bloomStorageHasherOffset, heapVars,
                   panicked, rd, rwlock, preHeap, fs>>

\* flatten, line 558: parent.lock.Lock()
FlattenLock ==
    /\ Running
    /\ fl.pc = "lock"
    /\ WriteLockFree(fl.parent)
    /\ rwlock' = [rwlock EXCEPT ![fl.parent].writer = TRUE]
    /\ fl' = [fl EXCEPT !.pc = "swap"]
    /\ UNCHANGED <<peerVars, pf, vj, lc, up, bloomAccountHasherOffset, bloomStorageHasherOffset, heapVars,
                   panicked, rd, preHeap, fs>>

\* flatten, lines 563-565: parent.stale.Swap(true), the panic when it was set
FlattenSwap ==
    /\ Running
    /\ fl.pc = "swap"
    /\ IF StaleSwap(Heap, fl.parent)
       THEN /\ panicked' = PanicStaleParent
            /\ fl' = [fl EXCEPT !.pc = "panicked"]
            /\ rwlock' = [rwlock EXCEPT ![fl.parent].writer = FALSE]
            /\ UNCHANGED layers
       ELSE /\ layers' = [layers EXCEPT ![fl.parent].stale = TRUE]
            /\ fl' = [fl EXCEPT !.accts = DOMAIN AccountData(Heap, fl.dl),
                                !.stor = DOMAIN StorageData(Heap, fl.dl),
                                !.pc = FlattenPhase(DOMAIN AccountData(Heap, fl.dl),
                                                    DOMAIN StorageData(Heap, fl.dl))]
            /\ UNCHANGED <<panicked, rwlock>>
    /\ UNCHANGED <<peerVars, pf, vj, lc, up, bloomAccountHasherOffset, bloomStorageHasherOffset,
                   accountMaps, storageMaps, slotMaps, rd, preHeap, fs>>

\* flatten, line 566: maps.Copy(parent.accountData, dl.accountData), one entry
FlattenCopyAccount(h) ==
    /\ Running
    /\ fl.pc = "accounts"
    /\ h \in fl.accts
    /\ accountMaps' = [accountMaps EXCEPT ![layers[fl.parent].accountData] =
                          MapsCopy(@, h :> AccountData(Heap, fl.dl)[h])]
    /\ fl' = [fl EXCEPT !.accts = @ \ {h}, !.pc = FlattenPhase(fl.accts \ {h}, fl.stor)]
    /\ UNCHANGED <<peerVars, pf, vj, lc, up, bloomAccountHasherOffset, bloomStorageHasherOffset, layers,
                   storageMaps, slotMaps, panicked, rd, rwlock, preHeap, fs>>

\* flatten, lines 568-575: one account of dl.storageData: its inner map is
\* stored in the parent when the parent lacks the account, else it is to be
\* copied slot by slot
FlattenStorageEntry(a) ==
    /\ Running
    /\ fl.pc = "storage"
    /\ a \in fl.stor
    /\ LET pOuter == StorageData(Heap, fl.parent)
           dOuter == StorageData(Heap, fl.dl)
       IN IF a \notin DOMAIN pOuter
          THEN /\ storageMaps' = [storageMaps EXCEPT ![layers[fl.parent].storageData] =
                                     MergeOuter(@, a :> dOuter[a])]
               /\ fl' = [fl EXCEPT !.stor = @ \ {a}, !.pc = FlattenPhase({}, fl.stor \ {a})]
          ELSE IF DOMAIN slotMaps[dOuter[a]] = {}
          THEN /\ fl' = [fl EXCEPT !.stor = @ \ {a}, !.pc = FlattenPhase({}, fl.stor \ {a})]
               /\ UNCHANGED storageMaps
          ELSE /\ fl' = [fl EXCEPT !.pc = "slots", !.cura = a,
                                   !.slots = DOMAIN slotMaps[dOuter[a]]]
               /\ UNCHANGED storageMaps
    /\ UNCHANGED <<peerVars, pf, vj, lc, up, bloomAccountHasherOffset, bloomStorageHasherOffset, layers,
                   accountMaps, slotMaps, panicked, rd, rwlock, preHeap, fs>>

\* flatten, line 575: maps.Copy(parent.storageData[accountHash], storage), one slot
FlattenCopySlot(s) ==
    /\ Running
    /\ fl.pc = "slots"
    /\ s \in fl.slots
    /\ slotMaps' = [slotMaps EXCEPT ![StorageData(Heap, fl.parent)[fl.cura]] =
                       MapsCopy(@, s :> SlotData(Heap, fl.dl, fl.cura)[s])]
    /\ fl' = IF fl.slots = {s}
             THEN [fl EXCEPT !.slots = {}, !.stor = @ \ {fl.cura},
                             !.pc = FlattenPhase({}, fl.stor \ {fl.cura})]
             ELSE [fl EXCEPT !.slots = @ \ {s}]
    /\ UNCHANGED <<peerVars, pf, vj, lc, up, bloomAccountHasherOffset, bloomStorageHasherOffset, layers,
                   accountMaps, storageMaps, panicked, rd, rwlock, preHeap, fs>>

\* flatten, lines 578-587: the combo layer is allocated and returned, the
\* deferred parent.lock.Unlock() runs
FlattenReturn ==
    /\ Running
    /\ fl.pc = "combo"
    /\ LET p == layers[fl.parent]
           d == layers[fl.dl]
       IN layers' = Append(layers,
                       [origin      |-> p.origin,
                        parent      |-> ComboParent(Heap, p),
                        memory      |-> ComboMemory(p, d),
                        root        |-> d.root,
                        stale       |-> FALSE,
                        accountData |-> p.accountData,
                        storageData |-> p.storageData,
                        accountList |-> NilAccountList,
                        storageList |-> << >>,
                        diffed      |-> ComboBloom(p, d)])
    /\ rwlock' = Append([rwlock EXCEPT ![fl.parent].writer = FALSE], FreeLock)
    /\ fl' = [fl EXCEPT !.pc = "returned", !.out = Len(layers) + 1]
    /\ UNCHANGED <<peerVars, pf, vj, lc, up, bloomAccountHasherOffset, bloomStorageHasherOffset,
                   accountMaps, storageMaps, slotMaps, panicked, rd, preHeap, fs>>

\* D0 = disk.Update(..), D1 = D0.Update(..) have been made; both goroutines
\* are about to start.
InitConc ==
    /\ PeersIdle
    /\ lc = [c \in ListCallers |-> IdleListCaller]
    /\ up = IdleUpdater
    /\ pf = IdlePrefetch
    /\ vj = IdleJournal
    /\ \E offs \in OffsetChoices :
          /\ bloomAccountHasherOffset = offs[1]
          /\ bloomStorageHasherOffset = offs[2]
    /\ \E d0 \in Deltas, d1 \in ConcDeltas :
          LET r0 == newDiffLayer(EmptyHeap, DiskId, CHOOSE r \in FreshRoots(EmptyHeap) : TRUE,
                                 d0.accounts, d0.storage)
              r1 == newDiffLayer(r0.heap, r0.out, CHOOSE r \in FreshRoots(r0.heap) : TRUE,
                                 d1.accounts, d1.storage)
          IN preHeap = r1.heap
    /\ layers = preHeap.layers
    /\ accountMaps = preHeap.accountMaps
    /\ storageMaps = preHeap.storageMaps
    /\ slotMaps = preHeap.slotMaps
    /\ fl = [IdleFlattener EXCEPT !.dl = Len(preHeap.layers)]
    /\ fs = IdleSiblings
    /\ rwlock = [l \in LayerIds(preHeap) |-> FreeLock]
    /\ panicked = NoPanic
    /\ \E key \in ReadKeys : rd = [IdleReader EXCEPT !.key = key]

NextConc ==
    \/ \E start \in ReadStarts : ReadBegin(start)
    \/ ReadTopRLock
    \/ ReadTopRUnlock
    \/ ReadOrigin
    \/ ReadWalkRLock
    \/ ReadWalkLookup
    \/ ReadWalkDisk
    \/ ReadWalkReturn
    \/ FlattenBegin
    \/ FlattenLock
    \/ FlattenSwap
    \/ \E h \in Accounts : FlattenCopyAccount(h)
    \/ \E a \in Accounts : FlattenStorageEntry(a)
    \/ \E s \in Slots : FlattenCopySlot(s)
    \/ FlattenReturn

SpecConc == InitConc /\ [][NextConc]_vars

-----------------------------------------------------------------------------
(* Vocabulary of the properties *)

RECURSIVE ChainOf(_, _)
\* dl and its diff ancestors, down to the last diff layer above the disk
ChainOf(H, dl) ==
    {dl} \cup (IF IsDiff(H.layers[dl].parent) THEN ChainOf(H, H.layers[dl].parent) ELSE {})

\* Neither dl nor any diff ancestor of it is stale.
Live(H, dl) == \A l \in ChainOf(H, dl) : ~H.layers[l].stale

\* A layer flatten returned (it carries the root of the child merged last).
IsCombo(H, c) == H.layers[c].root # c

\* dl.flatten() has returned a merged layer: a combo carries dl's root.
Flattened(H, dl) == \E c \in LayerIds(H) : c # dl /\ IsCombo(H, c) /\ H.layers[c].root = H.layers[dl].root

\* The layer dl.flatten() returns when the step is its return: dl itself over
\* the disk layer, else the layer the last merge allocates.
FlattenOut(dl) ==
    IF ~IsDiff(layers[dl].parent) THEN FlattenBase(Heap, dl).out ELSE Len(layers) + 1

\* The step is dl.flatten() returning a merged layer: the last merge of the
\* call (dl has a diff parent; over the disk layer flatten returns dl itself
\* and the step changes nothing).
FlattenReturns(dl) ==
    /\ panicked' = NoPanic
    /\ \/ /\ fl.pc = "idle"
          /\ IsDiff(layers[dl].parent)
          /\ Len(MergeOrder(Heap, dl)) = 1
          /\ Flatten(dl)
       \/ /\ fl.pc = "merge"
          /\ fl.dl = dl
          /\ Len(fl.todo) = 1
          /\ FlattenMerge

\* The step is the first merge of the call dl.flatten().
FlattenFirstMerge(dl) ==
    /\ fl.pc = "idle"
    /\ IsDiff(layers[dl].parent)
    /\ Flatten(dl)

\* The heap as it was when the flatten call whose merge is the step began,
\* and the layer that merge merges into.
CallHeap == IF fl.pc = "merge" THEN preHeap ELSE Heap
MergedInto(dl) == IF fl.pc = "merge" THEN fl.parent ELSE layers[dl].parent

-----------------------------------------------------------------------------
(* C1: flatten is observationally equivalent.  Whenever dl.flatten() returns,
   every account read and every (account, slot) read on the returned layer
   yields the error and blob the same read on dl yielded before the call. *)
FlattenObservationalEquivalence ==
    [][\A dl \in LayerIds(Heap) :
          FlattenReturns(dl) =>
             /\ \A h \in Accounts :
                   ReadValue(AccountRLP(Heap', FlattenOut(dl), h))
                     = ReadValue(AccountRLP(CallHeap, dl, h))
             /\ \A a \in Accounts, s \in Slots :
                   ReadValue(Storage(Heap', FlattenOut(dl), a, s))
                     = ReadValue(Storage(CallHeap, dl, a, s))]_vars

\* A flatten has merged a child over a parent holding the same account key with
\* another blob, and the merged layer is live.
FlattenEquivalenceWitness ==
    \E c \in LayerIds(Heap), d \in LayerIds(Heap), h \in Accounts :
        /\ IsCombo(Heap, c) /\ ~layers[c].stale
        /\ d # c /\ layers[d].root = layers[c].root
        /\ IsDiff(layers[d].parent)
        /\ h \in DOMAIN AccountData(Heap, d)
        /\ AccountRLP(Heap, c, h).data = AccountData(Heap, d)[h]
        /\ AccountRLP(Heap, c, h).data # DiskAccountRLP(h).data

-----------------------------------------------------------------------------
(* The nearest layer of a chain holding a key, found by looking at the maps
   alone: no bloom filter, no stale flag. *)

RECURSIVE NearestAccountHolder(_, _, _)
NearestAccountHolder(H, dl, h) ==
    IF h \in DOMAIN AccountData(H, dl) THEN dl
    ELSE IF IsDiff(H.layers[dl].parent) THEN NearestAccountHolder(H, H.layers[dl].parent, h)
    ELSE DiskId

NearestAccountBlob(H, dl, h) ==
    LET l == NearestAccountHolder(H, dl, h)
    IN IF l = DiskId THEN DiskAccountRLP(h).data ELSE AccountData(H, l)[h]

RECURSIVE NearestSlotHolder(_, _, _, _)
NearestSlotHolder(H, dl, a, s) ==
    IF a \in DOMAIN StorageData(H, dl) /\ s \in DOMAIN SlotData(H, dl, a) THEN dl
    ELSE IF IsDiff(H.layers[dl].parent) THEN NearestSlotHolder(H, H.layers[dl].parent, a, s)
    ELSE DiskId

NearestSlotBlob(H, dl, a, s) ==
    LET l == NearestSlotHolder(H, dl, a, s)
    IN IF l = DiskId THEN DiskStorage(a, s).data ELSE SlotData(H, l, a)[s]

-----------------------------------------------------------------------------
(* C2: once a child's flatten has returned, every read on its parent P, and
   every read whose walk reaches P, returns the stale error.  P is the parent
   of the flattened layer. *)
ParentStaleAfterFlatten ==
    [][\A dl \in LayerIds(Heap) :
          FlattenReturns(dl) =>
             LET P == layers[dl].parent
             IN /\ \A h \in Accounts :
                      /\ AccountRLP(Heap', P, h).err = ErrSnapshotStale
                      /\ Account(Heap', P, h).err = ErrSnapshotStale
                /\ \A a \in Accounts, s \in Slots :
                      Storage(Heap', P, a, s).err = ErrSnapshotStale
                /\ \A l \in LayerIds(Heap'), h \in Accounts :
                      P \in AccountRLP(Heap', l, h).reached
                         => AccountRLP(Heap', l, h).err = ErrSnapshotStale
                /\ \A l \in LayerIds(Heap'), a \in Accounts, s \in Slots :
                      P \in Storage(Heap', l, a, s).reached
                         => Storage(Heap', l, a, s).err = ErrSnapshotStale]_vars

-----------------------------------------------------------------------------
(* The values a read interleaved with D1.flatten() may return *)

\* What the call returns when nothing runs beside it.
SeqRead(H, dl, key) ==
    IF Len(key) = 1 THEN ReadValue(AccountRLP(H, dl, key[1]))
    ELSE ReadValue(Storage(H, dl, key[1], key[2]))

\* The value before the flatten: the read on the layer it started from, in the
\* heap as it was.  (The layer flatten returns did not exist then.)
PreFlattenValues(start, key) ==
    IF start \in LayerIds(preHeap) THEN {SeqRead(preHeap, start, key)} ELSE {}

\* The value after the flatten: the read on the layer D1.flatten() returns.
PostFlattenValue(key) ==
    LET f == flatten(preHeap, fl.dl) IN SeqRead(f.heap, f.out, key)

(* C3: with one goroutine reading a key through the chain D1 -> D0 and another
   running D1.flatten(), under every interleaving a read that completes has
   returned the pre-flatten value, the post-flatten value or the stale error,
   and nothing else: no value of a partially merged map, no torn value, no
   fatal error of the runtime. *)
ConcurrentReadOutcome ==
    rd.pc = "done" =>
        rd.res \in PreFlattenValues(rd.start, rd.key)
                     \cup {PostFlattenValue(rd.key), [err |-> ErrSnapshotStale, data |-> <<>>]}

\* A read that started on D1 before the flatten took D0 walked into D0 after
\* it and returned the stale error, for an account D0 held and D1 did not.
ConcurrentReadWitness ==
    /\ rd.pc = "done"
    /\ rd.start = fl.dl
    /\ rd.res.err = ErrSnapshotStale
    /\ fl.pc = "returned"
    /\ Len(rd.key) = 1
    /\ NearestAccountHolder(preHeap, fl.dl, rd.key[1]) = fl.parent

-----------------------------------------------------------------------------
(* C4: on a non-stale layer with no stale ancestor, a read of a key returns,
   without error, the blob of the nearest layer of the chain (the layer
   itself first) whose map holds the key, and the disk layer's answer when no
   diff layer of the chain holds it. *)
ReadReturnsNearest ==
    \A dl \in LayerIds(Heap) :
        Live(Heap, dl) =>
           /\ \A h \in Accounts :
                 ReadValue(AccountRLP(Heap, dl, h))
                   = [err |-> NoErr, data |-> NearestAccountBlob(Heap, dl, h)]
           /\ \A a \in Accounts, s \in Slots :
                 ReadValue(Storage(Heap, dl, a, s))
                   = [err |-> NoErr, data |-> NearestSlotBlob(Heap, dl, a, s)]

\* A live layer answers one key from a proper ancestor whose blob differs from
\* the disk's, and its bloom filter sends another key straight to the disk.
ReadNearestWitness ==
    \E dl \in LayerIds(Heap), h \in Accounts, g \in Accounts :
        /\ Live(Heap, dl)
        /\ NearestAccountHolder(Heap, dl, h) \notin {dl, DiskId}
        /\ AccountRLP(Heap, dl, h).data = AccountData(Heap, NearestAccountHolder(Heap, dl, h))[h]
        /\ AccountRLP(Heap, dl, h).data # DiskAccountRLP(h).data
        /\ ~BloomContainsHash(layers[dl].diffed, accountBloomHash(g))
        /\ AccountRLP(Heap, dl, g).disk

-----------------------------------------------------------------------------
(* C5, as stated: when the nearest layer holding a key holds it with a
   zero-length blob, a read from any layer of the heap returns a zero-length
   blob without error and the disk layer is not asked. *)
TombstoneReadAnyLayer ==
    \A dl \in LayerIds(Heap) :
        /\ \A h \in Accounts :
              (NearestAccountHolder(Heap, dl, h) # DiskId /\ NearestAccountBlob(Heap, dl, h) = <<>>)
                 => LET r == AccountRLP(Heap, dl, h)
                    IN r.err = NoErr /\ r.data = <<>> /\ ~r.disk
        /\ \A a \in Accounts, s \in Slots :
              (NearestSlotHolder(Heap, dl, a, s) # DiskId /\ NearestSlotBlob(Heap, dl, a, s) = <<>>)
                 => LET r == Storage(Heap, dl, a, s)
                    IN r.err = NoErr /\ r.data = <<>> /\ ~r.disk

(* C5, for a layer that is not stale and has no stale ancestor: when the
   nearest layer holding a key holds it with a zero-length blob, the read
   returns a zero-length blob without error and the disk layer is not asked. *)
TombstoneRead ==
    \A dl \in LayerIds(Heap) :
        Live(Heap, dl) =>
           /\ \A h \in Accounts :
                 (NearestAccountHolder(Heap, dl, h) # DiskId /\ NearestAccountBlob(Heap, dl, h) = <<>>)
                    => LET r == AccountRLP(Heap, dl, h)
                       IN r.err = NoErr /\ r.data = <<>> /\ ~r.disk
           /\ \A a \in Accounts, s \in Slots :
                 (NearestSlotHolder(Heap, dl, a, s) # DiskId /\ NearestSlotBlob(Heap, dl, a, s) = <<>>)
                    => LET r == Storage(Heap, dl, a, s)
                       IN r.err = NoErr /\ r.data = <<>> /\ ~r.disk

\* A live layer reads a deletion recorded by a proper ancestor for an account
\* the disk layer still has.
TombstoneReadWitness ==
    \E dl \in LayerIds(Heap), h \in Accounts :
        /\ Live(Heap, dl)
        /\ NearestAccountHolder(Heap, dl, h) \notin {dl, DiskId}
        /\ NearestAccountBlob(Heap, dl, h) = <<>>
        /\ DiskAccountRLP(h).data # <<>>
        /\ AccountRLP(Heap, dl, h).data = <<>>

-----------------------------------------------------------------------------
(* The merge a flatten performs, stated over maps as values: src's entries
   over dst's. *)
ChildWins(dst, src) ==
    [k \in DOMAIN dst \cup DOMAIN src |-> IF k \in DOMAIN src THEN src[k] ELSE dst[k]]

\* dl's inner maps as values, by account
SlotsOf(H, dl) == [a \in DOMAIN StorageData(H, dl) |-> SlotData(H, dl, a)]

\* M holds the merge of the child's maps (dAcc, dSto) over the parent's
\* (pAcc, pSto): the child's accounts, the parent's other accounts, and the
\* slots of the accounts both hold storage for.
MergedChildWins(mAcc, mSto, pAcc, pSto, dAcc, dSto) ==
    /\ \A h \in DOMAIN dAcc : h \in DOMAIN mAcc /\ mAcc[h] = dAcc[h]
    /\ \A h \in DOMAIN pAcc \ DOMAIN dAcc : h \in DOMAIN mAcc /\ mAcc[h] = pAcc[h]
    /\ \A a \in DOMAIN dSto \cap DOMAIN pSto :
          a \in DOMAIN mSto /\ mSto[a] = ChildWins(pSto[a], dSto[a])

(* C6, as stated: after flattening D into its parent P, the merged layer M
   holds D's blob for every account key of D, P's blob for every account key
   of P alone, and for an account both hold in their storage maps the union of
   the two slot sets with D's blob on a slot both hold. *)
FlattenMergesDirectParent ==
    [][\A dl \in LayerIds(Heap) :
          FlattenReturns(dl) =>
             LET P == layers[dl].parent
                 M == FlattenOut(dl)
             IN MergedChildWins(AccountData(Heap', M), SlotsOf(Heap', M),
                                AccountData(CallHeap, P), SlotsOf(CallHeap, P),
                                AccountData(CallHeap, dl), SlotsOf(CallHeap, dl))]_vars

(* C6, with P taken as the layer D is merged into, which is the layer the
   nested flatten of D's parent returned (the parent itself when it sits on
   the disk layer), its maps read just before the merge. *)
FlattenMergesChildWins ==
    [][\A dl \in LayerIds(Heap) :
          FlattenReturns(dl) =>
             LET P == MergedInto(dl)
                 M == FlattenOut(dl)
             IN MergedChildWins(AccountData(Heap', M), SlotsOf(Heap', M),
                                AccountData(Heap, P), SlotsOf(Heap, P),
                                AccountData(Heap, dl), SlotsOf(Heap, dl))]_vars

\* A merged layer exists whose child and whose parent both tracked an account
\* with different slot sets, and the merged inner map holds a slot of each.
FlattenMergeWitness ==
    \E c \in LayerIds(Heap), d \in LayerIds(Heap), a \in Accounts :
        /\ IsCombo(Heap, c) /\ d # c /\ layers[d].root = layers[c].root
        /\ IsDiff(layers[d].parent)
        /\ a \in DOMAIN StorageData(Heap, d) /\ a \in DOMAIN StorageData(Heap, c)
        /\ layers[d].storageData # layers[c].storageData
        /\ StorageData(Heap, d)[a] # StorageData(Heap, c)[a]
        /\ \E s \in DOMAIN SlotData(Heap, c, a) : s \notin DOMAIN SlotData(Heap, d, a)
        /\ \E s \in DOMAIN SlotData(Heap, d, a) :
              s \in DOMAIN SlotData(Heap, c, a) /\ SlotData(Heap, c, a)[s] = SlotData(Heap, d, a)[s]

-----------------------------------------------------------------------------
(* The keys of a chain and the membership test of a layer's bloom filter *)

BloomHasAccount(H, dl, h) == BloomContainsHash(H.layers[dl].diffed, accountBloomHash(h))
BloomHasSlot(H, dl, a, s) == BloomContainsHash(H.layers[dl].diffed, storageBloomHash(a, s))

\* Every key in the maps of dl or of a diff ancestor tests positive in dl's filter.
BloomCoversChain(H, dl) ==
    \A l \in ChainOf(H, dl) :
        /\ \A h \in DOMAIN AccountData(H, l) : BloomHasAccount(H, dl, h)
        /\ \A a \in DOMAIN StorageData(H, l) :
              \A s \in DOMAIN SlotData(H, l, a) : BloomHasSlot(H, dl, a, s)

(* C7, as stated: for every diff layer of the heap, every account key and every
   (account, slot) key in the layer's own maps or in the maps of any diff
   ancestor tests positive in the layer's bloom filter. *)
BloomNoFalseNegativesAnyLayer ==
    \A dl \in LayerIds(Heap) : BloomCoversChain(Heap, dl)

(* C7, for the layers that are not stale and have no stale ancestor: every key
   in the maps of the layer or of a diff ancestor tests positive in the
   layer's bloom filter. *)
BloomNoFalseNegatives ==
    \A dl \in LayerIds(Heap) : Live(Heap, dl) => BloomCoversChain(Heap, dl)

\* A live layer two levels above the disk whose filter answers for a key that
\* only its parent's map holds.
BloomCoverWitness ==
    \E dl \in LayerIds(Heap), h \in Accounts :
        /\ Live(Heap, dl)
        /\ IsDiff(layers[dl].parent)
        /\ h \notin DOMAIN AccountData(Heap, dl)
        /\ h \in DOMAIN AccountData(Heap, layers[dl].parent)
        /\ BloomHasAccount(Heap, dl, h)
        /\ \E g \in Accounts : ~BloomHasAccount(Heap, dl, g)

-----------------------------------------------------------------------------
(* C8: the account map and the inner storage maps of a layer that is not
   stale never change: whatever step is taken, a layer that is non-stale after
   it holds in every map exactly what it held before. *)
LiveLayerMapsFrozen ==
    [][\A dl \in LayerIds(Heap) :
          ~layers'[dl].stale =>
             /\ AccountData(Heap', dl) = AccountData(Heap, dl)
             /\ SlotsOf(Heap', dl) = SlotsOf(Heap, dl)]_vars

-----------------------------------------------------------------------------
(* Two children of one diff layer flattened side by side *)

\* The deltas of the layers of SpecSiblings: none, an account entry, a slot.
SiblingDeltas ==
    {[accounts |-> << >>, storage |-> << >>],
     [accounts |-> [a \in {A1} |-> <<1>>], storage |-> << >>],
     [accounts |-> << >>, storage |-> [a \in {A1} |-> [s \in {S1} |-> <<1>>]]]}

\* The diff layer P has the children C and D; P sits on the disk layer, or on
\* a diff layer A that sits on the disk layer.  One goroutine is about to call
\* C.flatten(), the other D.flatten().
InitSiblings ==
    /\ PeersIdle
    /\ lc = [c \in ListCallers |-> IdleListCaller]
    /\ up = IdleUpdater
    /\ pf = IdlePrefetch
    /\ vj = IdleJournal
    /\ \E offs \in OffsetChoices :
          /\ bloomAccountHasherOffset = offs[1]
          /\ bloomStorageHasherOffset = offs[2]
    /\ \E onDisk \in BOOLEAN, dA, dP, dC, dD \in SiblingDeltas :
          \E rA \in {IF onDisk THEN [heap |-> EmptyHeap, out |-> DiskId]
                      ELSE newDiffLayer(EmptyHeap, DiskId, CHOOSE r \in FreshRoots(EmptyHeap) : TRUE,
                                        dA.accounts, dA.storage)} :
          \E rP \in {newDiffLayer(rA.heap, rA.out, CHOOSE r \in FreshRoots(rA.heap) : TRUE,
                                   dP.accounts, dP.storage)} :
          \E rC \in {newDiffLayer(rP.heap, rP.out, CHOOSE r \in FreshRoots(rP.heap) : TRUE,
                                   dC.accounts, dC.storage)} :
          \E rD \in {newDiffLayer(rC.heap, rP.out, CHOOSE r \in FreshRoots(rC.heap) : TRUE,
                                   dD.accounts, dD.storage)} :
             /\ preHeap = rD.heap
             /\ fs = [g \in Siblings |->
                         [IdleFlattener EXCEPT !.dl = IF g = 1 THEN rC.out ELSE rD.out]]
    /\ layers = preHeap.layers
    /\ accountMaps = preHeap.accountMaps
    /\ storageMaps = preHeap.storageMaps
    /\ slotMaps = preHeap.slotMaps
    /\ panicked = NoPanic
    /\ rd = IdleReader
    /\ fl = IdleFlattener
    /\ rwlock = <<>>

SiblingOnly ==
    UNCHANGED <<peerVars, pf, vj, lc, up, bloomAccountHasherOffset, bloomStorageHasherOffset,
                rd, fl, rwlock, preHeap>>

\* What the goroutine g has after a merge that gave r, with rest the merges
\* of the calls above: the panic ends it, the last merge returns to the caller.
AfterMerge(g, r, rest) ==
    IF r.panic # NoPanic THEN [fs[g] EXCEPT !.pc = "panicked"]
    ELSE IF rest = <<>> THEN [fs[g] EXCEPT !.pc = "returned", !.out = r.out, !.todo = <<>>]
    ELSE [fs[g] EXCEPT !.pc = "merge", !.parent = r.out, !.todo = rest]

\* The goroutine g calls flatten on its layer: the calls nest down the parents
\* (line 555) and the innermost merging call runs its critical section under
\* the write lock of the layer on the disk layer (lines 558-587), as in Flatten.
SiblingFlatten(g) ==
    /\ Running
    /\ fs[g].pc = "idle"
    /\ LET order == MergeOrder(Heap, fs[g].dl)
           r     == MergeInto(Heap, Bottom(Heap, fs[g].dl), Head(order))
       IN /\ SetHeap(r.heap)
          /\ panicked' = r.panic
          /\ fs' = [fs EXCEPT ![g] = AfterMerge(g, r, Tail(order))]
    /\ SiblingOnly

\* The next call above merges its layer into what the call below returned,
\* under that layer's write lock, as in FlattenMerge.  The other goroutine
\* may have run between the two critical sections.
SiblingMerge(g) ==
    /\ Running
    /\ fs[g].pc = "merge"
    /\ LET r == MergeInto(Heap, fs[g].parent, Head(fs[g].todo))
       IN /\ SetHeap(r.heap)
          /\ panicked' = r.panic
          /\ fs' = [fs EXCEPT ![g] = AfterMerge(g, r, Tail(fs[g].todo))]
    /\ SiblingOnly

NextSiblings ==
    \/ \E g \in Siblings : SiblingFlatten(g)
    \/ \E g \in Siblings : SiblingMerge(g)

SpecSiblings == InitSiblings /\ [][NextSiblings]_vars

\* The parent of the two children, and the layer on the disk layer below them.
SiblingParent == layers[fs[1].dl].parent
SiblingBottom == Bottom(preHeap, fs[1].dl)

\* The step is a critical section of the goroutine g.
SiblingStep(g) == SiblingFlatten(g) \/ SiblingMerge(g)

\* At most one of the two calls returns a layer.  The call that comes second
\* to the lock of the layer on the disk layer meets that layer's stale flag
\* at line 563 and panics, with every layer and every map as it was.
SiblingFlattenExclusive ==
    [][/\ ~(fs'[1].pc = "returned" /\ fs'[2].pc = "returned")
       /\ \A g \in Siblings :
             (SiblingStep(g) /\ fs[3 - g].pc # "idle")
                => /\ fs[g].pc = "idle"
                   /\ panicked' = PanicStaleParent
                   /\ layers[SiblingBottom].stale
                   /\ heapVars' = heapVars]_vars

(* C9: of the flatten calls of two children of one diff layer P, run one
   after the other or side by side, at most one returns; the call that
   returns has merged into P, whose stale flag it set; the other call finds
   the stale flag of P set, panics with the stale-parent message and leaves
   every layer and every map as it was. *)
OneFlattenMergesIntoParent ==
    [][/\ ~(fs'[1].pc = "returned" /\ fs'[2].pc = "returned")
       /\ \A g \in Siblings :
             /\ (SiblingStep(g) /\ fs'[g].pc = "returned") => layers'[SiblingParent].stale
             /\ (SiblingStep(g) /\ fs'[g].pc = "panicked")
                   => /\ panicked' = PanicStaleParent
                      /\ layers[SiblingParent].stale
                      /\ heapVars' = heapVars]_vars

\* A call has panicked beside a sibling's call while the parent of the two is
\* not stale.
SecondFlattenWitness ==
    /\ panicked = PanicStaleParent
    /\ \E g \in Siblings : fs[g].pc = "panicked" /\ fs[3 - g].pc # "idle"
    /\ ~layers[SiblingParent].stale

-----------------------------------------------------------------------------
(* C10: every accessor of a stale layer fails with the stale error and exposes
   no value and no key: the three reads, the decoded account set and the two
   key lists. *)
StaleAccessorsFail ==
    \A dl \in LayerIds(Heap) :
        layers[dl].stale =>
           /\ \A h \in Accounts :
                 /\ ReadValue(AccountRLP(Heap, dl, h)) = [err |-> ErrSnapshotStale, data |-> <<>>]
                 /\ Account(Heap, dl, h) = [err |-> ErrSnapshotStale, account |-> <<>>,
                                            panic |-> NoPanic]
           /\ \A a \in Accounts, s \in Slots :
                 ReadValue(Storage(Heap, dl, a, s)) = [err |-> ErrSnapshotStale, data |-> <<>>]
           /\ \A r \in AccountsOf(dl) :
                 r = [err |-> ErrSnapshotStale, accounts |-> << >>, fatal |-> NoPanic]
           /\ AccountListOf(Heap, dl) = <<>>
           /\ \A a \in Accounts : StorageListOf(Heap, dl, a).keys = <<>>

-----------------------------------------------------------------------------
(* C11: when the bloom filter of a non-stale layer answers negative for the
   mixed key of an account, or of an (account, slot) pair, the read looks into
   no diff layer's map and returns what the same read on the layer's origin
   returns. *)
BloomMissReadsOrigin ==
    \A dl \in LayerIds(Heap) :
        ~layers[dl].stale =>
           /\ layers[dl].origin = DiskId
           /\ \A h \in Accounts :
                 ~BloomHasAccount(Heap, dl, h) =>
                    LET r == AccountRLP(Heap, dl, h)
                    IN /\ r.probed = {} /\ r.reached = {}
                       /\ ReadValue(r) = ReadValue(DiskAccountRLP(h))
           /\ \A a \in Accounts, s \in Slots :
                 ~BloomHasSlot(Heap, dl, a, s) =>
                    LET r == Storage(Heap, dl, a, s)
                    IN /\ r.probed = {} /\ r.reached = {}
                       /\ ReadValue(r) = ReadValue(DiskStorage(a, s))

\* A non-stale layer above a diff parent, with a key in its own map, whose
\* filter answers negative for an account the disk layer holds: the read
\* returns the disk's blob and enters no layer.
BloomMissWitness ==
    \E dl \in LayerIds(Heap), h \in Accounts :
        /\ ~layers[dl].stale
        /\ IsDiff(layers[dl].parent)
        /\ DOMAIN AccountData(Heap, dl) # {}
        /\ ~BloomHasAccount(Heap, dl, h)
        /\ h \in DOMAIN DiskAccounts
        /\ AccountRLP(Heap, dl, h).data = DiskAccounts[h]
        /\ AccountRLP(Heap, dl, h).probed = {}

-----------------------------------------------------------------------------
(* C12: the origin of every diff layer, made by newDiffLayer / Update or
   returned by flatten, is the disk layer that following the parent pointers
   from the layer ends at. *)

RECURSIVE ChainBottom(_, _, _)
\* Where the parent pointers lead from layer l within n steps: the first
\* identity that is not a diff layer of the heap, or l itself when n steps
\* do not leave the diff layers.
ChainBottom(H, l, n) ==
    IF l \notin LayerIds(H) \/ n = 0 THEN l
    ELSE ChainBottom(H, H.layers[l].parent, n - 1)

OriginIsChainBottom ==
    \A dl \in LayerIds(Heap) :
        /\ layers[dl].origin = DiskId
        /\ layers[dl].origin = ChainBottom(Heap, dl, Len(layers))

\* A layer two diff layers above the disk and a layer flatten returned both exist.
OriginWitness ==
    /\ \E dl \in LayerIds(Heap) :
          /\ IsDiff(layers[dl].parent)
          /\ IsDiff(layers[layers[dl].parent].parent)
          /\ layers[dl].origin = DiskId
    /\ \E c \in LayerIds(Heap) : IsCombo(Heap, c) /\ layers[c].origin = DiskId

-----------------------------------------------------------------------------
(* C13: following the parent pointers from any diff layer, live, stale or
   returned by flatten, visits finitely many distinct diff layers and ends at
   the disk layer: no parent is nil (an identity that names no layer) and no
   layer is its own ancestor. *)

RECURSIVE ChainEndsAtDisk(_, _, _)
\* The walk from l ends at the disk layer without meeting a layer in seen twice.
ChainEndsAtDisk(H, l, seen) ==
    IF l = DiskId THEN TRUE
    ELSE IF l \notin LayerIds(H) \/ l \in seen THEN FALSE
    ELSE ChainEndsAtDisk(H, H.layers[l].parent, seen \cup {l})

ParentChainTerminates ==
    \A dl \in LayerIds(Heap) : ChainEndsAtDisk(Heap, dl, {})

\* A stale layer, a layer flatten returned and a layer two diff layers above
\* the disk layer are all in the heap.
ParentChainWitness ==
    /\ \E dl \in LayerIds(Heap) : layers[dl].stale
    /\ \E c \in LayerIds(Heap) : IsCombo(Heap, c) /\ ~layers[c].stale
    /\ \E dl \in LayerIds(Heap) :
          IsDiff(layers[dl].parent) /\ IsDiff(layers[layers[dl].parent].parent)

-----------------------------------------------------------------------------
(* C14: flatten on the top of a chain of n >= 2 diff layers returns one diff
   layer whose parent is the disk layer and whose maps are the union of the
   entries of all n layers, each key with the value of the layer nearest the
   top that holds it. *)

\* The account keys, the storage accounts and the slots of an account held
\* anywhere in the chain of dl.
ChainAccountKeys(H, dl) == UNION {DOMAIN AccountData(H, l) : l \in ChainOf(H, dl)}
ChainStorageKeys(H, dl) == UNION {DOMAIN StorageData(H, l) : l \in ChainOf(H, dl)}
ChainSlotKeys(H, dl, a) ==
    UNION {IF a \in DOMAIN StorageData(H, l) THEN DOMAIN SlotData(H, l, a) ELSE {} :
              l \in ChainOf(H, dl)}

FlattenChainUnion ==
    [][\A dl \in LayerIds(Heap) :
          FlattenReturns(dl) =>
             LET M == FlattenOut(dl)
             IN /\ layers'[M].parent = DiskId
                /\ AccountData(Heap', M) =
                      [h \in ChainAccountKeys(CallHeap, dl) |-> NearestAccountBlob(CallHeap, dl, h)]
                /\ SlotsOf(Heap', M) =
                      [a \in ChainStorageKeys(CallHeap, dl) |->
                          [s \in ChainSlotKeys(CallHeap, dl, a) |->
                              NearestSlotBlob(CallHeap, dl, a, s)]]]_vars

\* flatten has returned a layer for the top of a chain of three, and the
\* returned layer holds entries of all three.
FlattenChainWitness ==
    \E c \in LayerIds(Heap), d \in LayerIds(Heap) :
        /\ IsCombo(Heap, c) /\ ~layers[c].stale
        /\ d # c /\ layers[d].root = layers[c].root
        /\ IsDiff(layers[d].parent)
        /\ IsDiff(layers[layers[d].parent].parent)
        /\ layers[c].parent = DiskId
        /\ Cardinality(DOMAIN AccountData(Heap, c)) + Cardinality(DOMAIN StorageData(Heap, c)) >= 3

-----------------------------------------------------------------------------
(* The key lists as operations: AccountList and StorageList cache what they
   return in the layer and charge its memory.  The specification SpecList
   interleaves them with Update and flatten. *)

\* The most lists the layers of SpecList hold cached, over all layers.
MaxListed == 1

\* (a faulty variant of AccountListGenerate: the list is cached without a charge)
AccountListGenerateFree(H, dl) ==
    LET l    == H.layers[dl]
        list == SortedKeys(DOMAIN AccountData(H, dl))
    IN [heap |-> [H EXCEPT !.layers[dl] =
                    [l EXCEPT !.accountList = [isNil |-> FALSE, keys |-> list]]],
        out  |-> list]

\* AccountList, lines 607-610, under the write lock: the keys sorted, cached,
\* and their bytes charged to the layer's memory.
AccountListGenerate(H, dl) ==
    LET l    == H.layers[dl]
        list == SortedKeys(DOMAIN AccountData(H, dl))
    IN [heap |-> [H EXCEPT !.layers[dl] =
                    [l EXCEPT !.accountList = [isNil |-> FALSE, keys |-> list],
                              !.memory = l.memory + Len(list) * HashLength]],
        out  |-> list]

\* dl.AccountList(), lines 594-611, run alone: the cached list when there is
\* one, else the list generated.
AccountList(H, dl) ==
    LET l == H.layers[dl]
    IN IF ~l.accountList.isNil
       THEN [heap |-> H, out |-> l.accountList.keys]
       ELSE AccountListGenerate(H, dl)

\* StorageList, lines 640-644, under the write lock: the slot keys sorted and
\* cached; the charge is taken from the number of cached lists.
StorageListGenerate(H, dl, accountHash) ==
    LET l      == H.layers[dl]
        list   == SortedKeys(DOMAIN SlotData(H, dl, accountHash))
        cached == [a \in DOMAIN l.storageList \cup {accountHash} |->
                     IF a = accountHash THEN list ELSE l.storageList[a]]
    IN [heap |-> [H EXCEPT !.layers[dl] =
                    [l EXCEPT !.storageList = cached,
                              !.memory = l.memory
                                         + Cardinality(DOMAIN cached) * HashLength
                                         + HashLength]],
        out  |-> [isNil |-> FALSE, keys |-> list]]

\* dl.StorageList(accountHash), lines 622-645, run alone: nil for an account
\* the layer does not track, the cached list when there is one, else the list
\* generated.
StorageList(H, dl, accountHash) ==
    LET l == H.layers[dl]
    IN IF accountHash \notin DOMAIN StorageData(H, dl)
       THEN [heap |-> H, out |-> [isNil |-> TRUE, keys |-> <<>>]]
       ELSE IF accountHash \in DOMAIN l.storageList
       THEN [heap |-> H, out |-> [isNil |-> FALSE, keys |-> l.storageList[accountHash]]]
       ELSE StorageListGenerate(H, dl, accountHash)

\* The lists the layers hold cached: a layer with "" for its account list, a
\* layer with an account for the storage list of that account.
ListsCached(H) ==
    {<<i, "">> : i \in {k \in DOMAIN H.layers : ~H.layers[k].accountList.isNil}}
    \cup UNION {{<<i, a>> : a \in DOMAIN H.layers[i].storageList} : i \in DOMAIN H.layers}

\* The lists some goroutine is about to generate.
ListsPending == {<<lc[c].dl, lc[c].account>> : c \in {k \in DOMAIN lc : lc[k].pc = "lock"}}

\* dl.AccountList() up to its return or to line 604: under the read lock the
\* goroutine takes dl.accountList (lines 596-598) and returns it when it is not
\* nil (lines 600-602); else it goes on to wait for the write lock, which any
\* other goroutine may take before it.
CallAccountList(dl) ==
    /\ Running
    /\ \E c \in DOMAIN lc :
          /\ lc[c].pc = "idle"
          /\ IF ~layers[dl].accountList.isNil
             THEN UNCHANGED lc
             ELSE /\ Cardinality(ListsCached(Heap) \cup ListsPending \cup {<<dl, "">>}) <= MaxListed
                  /\ lc' = [lc EXCEPT ![c] = [IdleListCaller EXCEPT !.pc = "lock", !.dl = dl]]
    /\ UNCHANGED <<peerVars, pf, vj, up, bloomAccountHasherOffset, bloomStorageHasherOffset, panicked,
                   heapVars, threadVars>>

\* dl.StorageList(accountHash) up to its return or to line 638: under the read
\* lock it returns nil for an account the layer does not track (lines 624-628)
\* and the cached list when there is one (lines 630-633); else it unlocks
\* (line 635) and goes on to wait for the write lock.  The lookup of line 624
\* beside a merge that writes the same outer map under another lock is a data
\* race: it sees the map before or after the write, or the runtime stops the
\* process.
CallStorageList(dl, accountHash) ==
    /\ Running
    /\ \E c \in DOMAIN lc :
          /\ lc[c].pc = "idle"
          /\ \/ /\ IF accountHash \notin DOMAIN StorageData(Heap, dl)
                      \/ accountHash \in DOMAIN layers[dl].storageList
                   THEN UNCHANGED lc
                   ELSE /\ Cardinality(ListsCached(Heap) \cup ListsPending
                                         \cup {<<dl, accountHash>>}) <= MaxListed
                        /\ lc' = [lc EXCEPT ![c] = [IdleListCaller EXCEPT
                                                      !.pc = "lock", !.dl = dl,
                                                      !.account = accountHash]]
                /\ UNCHANGED panicked
             \/ /\ ReadRacesMerge(dl, "outer", layers[dl].storageData)
                /\ panicked' = FatalConcurrentMap
                /\ UNCHANGED lc
    /\ UNCHANGED <<peerVars, pf, vj, up, bloomAccountHasherOffset, bloomStorageHasherOffset,
                   heapVars, threadVars>>

\* What the goroutine c generates once it holds the write lock: lines 607-610
\* for AccountList, lines 640-644 for StorageList, whatever the cache holds by then.
Generated(H, c) ==
    IF lc[c].account = ""
    THEN LET g == AccountListGenerate(H, lc[c].dl)
         IN [heap |-> g.heap, out |-> [isNil |-> FALSE, keys |-> g.out]]
    ELSE StorageListGenerate(H, lc[c].dl, lc[c].account)

\* How the runtime may stop the process when the goroutine c generates its
\* list beside a merge that writes a map it reads under another lock:
\* maps.Keys ranges over dl.accountData (line 607) or over the inner map
\* (line 640), which line 640 first looks up in dl.storageData.
GenerateFatal(c) ==
    LET dl == lc[c].dl
        a  == lc[c].account
    IN IF a = ""
       THEN IF ReadRacesMerge(dl, "accounts", layers[dl].accountData)
            THEN {FatalConcurrentIteration} ELSE {}
       ELSE (IF ReadRacesMerge(dl, "outer", layers[dl].storageData)
             THEN {FatalConcurrentMap} ELSE {})
            \cup (IF ReadRacesMerge(dl, "inner", StorageData(Heap, dl)[a])
                  THEN {FatalConcurrentIteration} ELSE {})

\* The rest of the call, lines 604-610 / 638-644: the goroutine takes the write
\* lock, generates, caches and charges the list, unlocks and returns.  The
\* merges of flatten add one key at a time, so beside one the list is the map's
\* keys before or after it, or the process stops.
CallGenerate(c) ==
    /\ Running
    /\ lc[c].pc = "lock"
    /\ \/ /\ SetHeap(Generated(Heap, c).heap)
          /\ lc' = [lc EXCEPT ![c] = IdleListCaller]
          /\ UNCHANGED panicked
       \/ /\ panicked' \in GenerateFatal(c)
          /\ UNCHANGED <<heapVars, lc>>
    /\ UNCHANGED <<peerVars, pf, vj, up, bloomAccountHasherOffset, bloomStorageHasherOffset,
                   threadVars>>

\* The deltas of SpecList: the key lists read keys only, so one slot value
\* stands for all and one account carries the storage; the entries of that
\* account are drawn deleted and not.
ListDeltas ==
    {d \in Deltas :
        /\ \A a \in DOMAIN d.storage :
              a = "A1" /\ \A s \in DOMAIN d.storage[a] : d.storage[a][s] = <<1>>
        /\ \A a \in DOMAIN d.accounts : a # "A1" => d.accounts[a] = <<1>>}

\* The layers the Updates of SpecList build on: the newest layer, so that the
\* layers form one chain (Spec has the forks), or the disk layer at the start.
ListParents(H) == IF H.layers = <<>> THEN {DiskId} ELSE {Len(H.layers)}

NextList ==
    \/ /\ NumUpdates(Heap) < MaxUpdates
       /\ \E parent \in ListParents(Heap), delta \in ListDeltas \cup NilDeltas :
             \E root \in FreshRoots(Heap) : Update(parent, root, delta)
    \/ \E dl \in LayerIds(Heap) : Flatten(dl)
    \/ FlattenMerge
    \/ \E dl \in LayerIds(Heap) : CallAccountList(dl)
    \/ \E dl \in LayerIds(Heap), a \in Accounts : CallStorageList(dl, a)
    \/ \E c \in DOMAIN lc : CallGenerate(c)

\* SpecList starts from one draw of the bloom offsets: the key lists never
\* read the bloom.
InitList == Init /\ bloomAccountHasherOffset = 0

SpecList == InitList /\ [][NextList]_vars

-----------------------------------------------------------------------------
\* list holds exactly the hashes of S, each once, in ascending byte order
IsAscendingListOf(list, S) ==
    /\ {list[i] : i \in DOMAIN list} = S
    /\ \A i, j \in DOMAIN list : i < j => BytesLess(HashBytes[list[i]], HashBytes[list[j]])

(* C15: on every layer that is not stale, AccountList() returns exactly the
   keys of the layer's account map in ascending byte order, deleted entries
   included; StorageList(a) returns nil for an account outside the layer's
   storage map and else exactly the slot keys of a in ascending byte order;
   and once a call has returned a list, every later call returns that list. *)
KeyListsExactAndStable ==
    [][\A dl \in LayerIds(Heap') :
          ~layers'[dl].stale =>
             /\ IsAscendingListOf(AccountList(Heap', dl).out, DOMAIN AccountData(Heap', dl))
             /\ \A a \in Accounts :
                   LET out == StorageList(Heap', dl, a).out
                   IN IF a \in DOMAIN StorageData(Heap', dl)
                      THEN ~out.isNil /\ IsAscendingListOf(out.keys, DOMAIN SlotData(Heap', dl, a))
                      ELSE out.isNil
             /\ dl \in LayerIds(Heap) =>
                   /\ ~layers[dl].accountList.isNil =>
                         AccountList(Heap', dl).out = AccountList(Heap, dl).out
                   /\ \A a \in DOMAIN layers[dl].storageList :
                         StorageList(Heap', dl, a).out = StorageList(Heap, dl, a).out]_vars

-----------------------------------------------------------------------------
(* C16: newDiffLayer rejects every storage delta in which an account maps to
   a nil inner map: whatever the parent, the call panics with the message
   naming that account, no layer is added, and every layer (the parent's
   bloom and stale flag among them) and every map is as before the call. *)
NilStorageRejected ==
    [][\A parent \in {DiskId} \cup LayerIds(Heap), delta \in NilDeltas :
          Update(parent, Len(layers) + 1, delta) =>
             /\ \E a \in DOMAIN delta.storage :
                   delta.storage[a] = NilSlots /\ panicked' = PanicStorageNil[a]
             /\ heapVars' = heapVars]_vars

\* A delta with a nil inner map has been rejected by an Update on a diff
\* layer that holds entries and a non-empty bloom.
NilStorageWitness ==
    /\ \E a \in Accounts : panicked = PanicStorageNil[a]
    /\ \E dl \in LayerIds(Heap) :
          /\ ~layers[dl].stale
          /\ layers[dl].diffed # BloomNew
          /\ StorageData(Heap, dl) # << >>

-----------------------------------------------------------------------------
(* The peer set (src/eth/peerset.go) *)

\* The most calls one goroutine makes, and the largest num headPeers is given.
MaxCallsPerGor == 2
MaxNum == 3

errPeerSetClosed == "peerset closed"
errPeerAlreadyRegistered == "peer already registered"
errPeerWaitTimeout == "peer wait timeout"
errPeerNotRegistered == "peer not registered"
errSnapWithoutEth == "peer connected on snap without compatible eth support"
errBscWithoutEth == "peer connected on bsc without compatible eth support"

\* The fields of the peer set that belong to a satellite protocol.
WaitField == [snap |-> "snapWait", bsc |-> "bscWait"]
PendField == [snap |-> "snapPend", bsc |-> "bscPend"]

\* peer.Caps() of a satellite peer that does not run eth, as %v prints it
SatelliteCaps == [snap |-> "[snap/1]", bsc |-> "[bsc/1]"]

\* fmt.Errorf("%w: have %v", err, caps): a new error that wraps err
Errorf(err, caps) == err \o ": have " \o caps

\* What the registration of a peer without eth returns: line 111 wraps the
\* sentinel together with the peer's capabilities, line 141 returns it bare.
errWithoutEth == [snap |-> Errorf(errSnapWithoutEth, SatelliteCaps["snap"]),
                  bsc  |-> errBscWithoutEth]

\* m[k] = v and delete(m, k) on a Go map
MapPut(m, k, v) == [x \in DOMAIN m \cup {k} |-> IF x = k THEN v ELSE m[x]]
MapDelete(m, k) == [x \in DOMAIN m \ {k} |-> m[x]]

\* The extensions a caller may hand to registerPeer: none, or one.
ExtArgs == {NilExt, 1}

\* (a faulty variant of IsClosed: a closed set is taken for an open one)
IsClosedNever(P) == FALSE

\* registerPeer, line 285: ps.closed
IsClosed(P) == P.closed

\* (a faulty variant of registerPeer: the snap counter is raised for a peer
\* without a snap extension too)
registerPeerCountsAll(P, id, ext, bscExt) ==
    IF IsClosed(P) THEN [ps |-> P, err |-> errPeerSetClosed]
    ELSE IF id \in DOMAIN P.peers THEN [ps |-> P, err |-> errPeerAlreadyRegistered]
    ELSE [ps  |-> [P EXCEPT !.peers = MapPut(@, id, [snapExt |-> ext, bscExt |-> bscExt]),
                            !.snapPeers = @ + 1],
          err |-> NoErr]

\* ps.registerPeer(peer, ext, bscExt), lines 280-304, with id = peer.ID()
registerPeer(P, id, ext, bscExt) ==
    IF IsClosed(P) THEN [ps |-> P, err |-> errPeerSetClosed]
    ELSE IF id \in DOMAIN P.peers THEN [ps |-> P, err |-> errPeerAlreadyRegistered]
    ELSE [ps  |-> [P EXCEPT !.peers = MapPut(@, id, [snapExt |-> ext, bscExt |-> bscExt]),
                            !.snapPeers = IF ext # NilExt THEN @ + 1 ELSE @],
          err |-> NoErr]

\* (a faulty variant of unregisterPeer: the snap counter of an unknown id is
\* lowered before the id is looked up)
unregisterPeerCounting(P, id) ==
    IF id \notin DOMAIN P.peers
    THEN [ps |-> [P EXCEPT !.snapPeers = @ - 1], err |-> errPeerNotRegistered]
    ELSE [ps  |-> [P EXCEPT !.peers = MapDelete(@, id),
                            !.snapPeers = IF P.peers[id].snapExt # NilExt THEN @ - 1 ELSE @],
          err |-> NoErr]

\* ps.unregisterPeer(id), lines 308-321
unregisterPeer(P, id) ==
    IF id \notin DOMAIN P.peers THEN [ps |-> P, err |-> errPeerNotRegistered]
    ELSE [ps  |-> [P EXCEPT !.peers = MapDelete(@, id),
                            !.snapPeers = IF P.peers[id].snapExt # NilExt THEN @ - 1 ELSE @],
          err |-> NoErr]

\* The orders in which a range over ps.peers may visit the map.
RangeOrders(P) ==
    {o \in [1..Cardinality(DOMAIN P.peers) -> DOMAIN P.peers] :
        \A i, j \in DOMAIN o : i # j => o[i] # o[j]}

RECURSIVE headPeersLoop(_, _, _)
\* headPeers, lines 405-410: the loop over the peers still to visit
headPeersLoop(rest, num, list) ==
    IF rest = << >> THEN list
    ELSE IF Len(list) > num THEN list
    ELSE headPeersLoop(Tail(rest), num, Append(list, Head(rest)))

\* ps.headPeers(num), lines 396-412, when the range visits the peers in order
headPeers(P, num, order) ==
    LET n == IF num > Cardinality(DOMAIN P.peers) THEN Cardinality(DOMAIN P.peers) ELSE num
    IN headPeersLoop(order, n, << >>)

\* ps.len() and ps.snapLen(), lines 468-481
len(P) == Cardinality(DOMAIN P.peers)
snapLen(P) == P.snapPeers

\* ps.close(), lines 505-516
close(P) == [P EXCEPT !.closed = TRUE, !.quitCh = "closed"]

\* registerSnapExtension / registerBscExtension up to the channel send: the
\* peer set after it, the error, and the channel of the waiter when one is
\* found (the send, line 127 / 157, then blocks with ps.lock held).
registerExtension(P, proto, id, ext, runningEth) ==
    IF ~runningEth THEN [ps |-> P, err |-> errWithoutEth[proto], ch |-> NoChan]
    ELSE IF id \in DOMAIN P.peers
    THEN [ps |-> P, err |-> errPeerAlreadyRegistered, ch |-> NoChan]
    ELSE IF id \in DOMAIN P[PendField[proto]]
    THEN [ps |-> P, err |-> errPeerAlreadyRegistered, ch |-> NoChan]
    ELSE IF id \in DOMAIN P[WaitField[proto]]
    THEN [ps  |-> [P EXCEPT ![WaitField[proto]] = MapDelete(@, id)],
          err |-> NoErr, ch |-> P[WaitField[proto]][id]]
    ELSE [ps  |-> [P EXCEPT ![PendField[proto]] = MapPut(@, id, ext)],
          err |-> NoErr, ch |-> NoChan]

\* ps.registerSnapExtension(peer), lines 107-132
registerSnapExtension(P, id, ext, runningEth) == registerExtension(P, "snap", id, ext, runningEth)
\* ps.registerBscExtension(peer), lines 137-162
registerBscExtension(P, id, ext, runningEth) == registerExtension(P, "bsc", id, ext, runningEth)

\* waitSnapExtension / waitBscExtension up to the select: the peer set after
\* it, what is returned, and whether the call goes on to wait on channel ch.
waitExtension(P, proto, id, ch, runningExt) ==
    IF ~runningExt THEN [ps |-> P, peer |-> NilExt, err |-> NoErr, wait |-> FALSE]
    ELSE IF id \in DOMAIN P.peers
    THEN [ps |-> P, peer |-> NilExt, err |-> errPeerAlreadyRegistered, wait |-> FALSE]
    ELSE IF id \in DOMAIN P[WaitField[proto]]
    THEN [ps |-> P, peer |-> NilExt, err |-> errPeerAlreadyRegistered, wait |-> FALSE]
    ELSE IF id \in DOMAIN P[PendField[proto]]
    THEN [ps   |-> [P EXCEPT ![PendField[proto]] = MapDelete(@, id)],
          peer |-> P[PendField[proto]][id], err |-> NoErr, wait |-> FALSE]
    ELSE [ps   |-> [P EXCEPT ![WaitField[proto]] = MapPut(@, id, ch)],
          peer |-> NilExt, err |-> NoErr, wait |-> TRUE]

\* ps.waitSnapExtension(peer), lines 166-193
waitSnapExtension(P, id, ch, runningSnap) == waitExtension(P, "snap", id, ch, runningSnap)
\* ps.waitBscExtension(peer), lines 215-242
waitBscExtension(P, id, ch, runningBsc) == waitExtension(P, "bsc", id, ch, runningBsc)

-----------------------------------------------------------------------------
(* The peer set's operations as steps.  registerPeer, unregisterPeer and
   close run under ps.lock from their first line to their last; the two
   rendezvous calls are followed through their blocking points. *)

DiffLayersIdle ==
    UNCHANGED <<bloomAccountHasherOffset, bloomStorageHasherOffset, heapVars, panicked,
                threadVars, lc, up, pf, vj>>

LockFree == ps.lock = Unlocked

\* The name of the extension / of the channel made by the next call of g.
NextName(g) == 10 * g + gor[g].calls + 1

CanCall(g) == gor[g].pc \in {"idle", "returned"} /\ gor[g].calls < MaxCallsPerGor

Returned(g, peer, err) ==
    [gor[g] EXCEPT !.pc = "returned", !.peer = peer, !.err = err]

RegisterPeer(id, ext, bscExt) ==
    /\ LockFree
    /\ ps' = registerPeer(ps, id, ext, bscExt).ps
    /\ UNCHANGED gor
    /\ DiffLayersIdle

UnregisterPeer(id) ==
    /\ LockFree
    /\ ps' = unregisterPeer(ps, id).ps
    /\ UNCHANGED gor
    /\ DiffLayersIdle

Close ==
    /\ LockFree
    /\ ps' = close(ps)
    /\ UNCHANGED gor
    /\ DiffLayersIdle

\* g calls registerSnapExtension / registerBscExtension for id.
RegisterExtension(g, proto, id, runningEth) ==
    /\ CanCall(g)
    /\ runningEth => LockFree
    /\ LET r == registerExtension(ps, proto, id, NextName(g), runningEth)
           c == [gor[g] EXCEPT !.proto = proto, !.id = id, !.ext = NextName(g),
                               !.calls = @ + 1, !.ch = r.ch, !.peer = NilExt, !.err = r.err]
       IN IF r.ch # NoChan
          THEN /\ ps' = [r.ps EXCEPT !.lock = g]
               /\ gor' = [gor EXCEPT ![g] = [c EXCEPT !.pc = "send"]]
          ELSE /\ ps' = r.ps
               /\ gor' = [gor EXCEPT ![g] = [c EXCEPT !.pc = "returned"]]
    /\ DiffLayersIdle

\* g calls waitSnapExtension / waitBscExtension for id.
WaitExtension(g, proto, id, runningExt) ==
    /\ CanCall(g)
    /\ runningExt => LockFree
    /\ LET r == waitExtension(ps, proto, id, NextName(g), runningExt)
           c == [gor[g] EXCEPT !.proto = proto, !.id = id, !.calls = @ + 1,
                               !.ch = IF r.wait THEN NextName(g) ELSE NoChan,
                               !.peer = r.peer, !.err = r.err]
       IN /\ ps' = r.ps
          /\ gor' = [gor EXCEPT ![g] = [c EXCEPT !.pc = IF r.wait THEN "select" ELSE "returned"]]
    /\ DiffLayersIdle

\* The registering goroutine blocked in the send on the channel of g, if any.
SendersOn(g) == {r \in Registerers : gor[r].pc = "send" /\ gor[r].ch = gor[g].ch}

\* The send of r completes: r returns nil and its deferred Unlock runs.
SendCompletes(G, r) == [G EXCEPT ![r].pc = "returned"]

\* select, case peer := <-wait (lines 196-197, 245-246)
WaitReceive(g) ==
    /\ gor[g].pc = "select"
    /\ \E r \in SendersOn(g) :
          /\ gor' = SendCompletes([gor EXCEPT ![g] = Returned(g, gor[r].ext, NoErr)], r)
          /\ ps' = [ps EXCEPT !.lock = Unlocked]
    /\ DiffLayersIdle

\* select, case <-time.After(extensionWaitTimeout) (lines 199, 248).  The
\* timer starts when the select is entered, and a send that finds the
\* goroutine in the select, or that it finds on entering, is served first.
WaitTimeout(g) ==
    /\ gor[g].pc = "select"
    /\ SendersOn(g) = {}
    /\ gor' = [gor EXCEPT ![g].pc = IF gor[g].proto = "snap" THEN "timeoutLock"
                                    ELSE "timeoutTryLock"]
    /\ UNCHANGED ps
    /\ DiffLayersIdle

\* select, case <-ps.quitCh (lines 205, 270)
WaitQuit(g) ==
    /\ gor[g].pc = "select"
    /\ ps.quitCh = "closed"
    /\ gor' = [gor EXCEPT ![g].pc = "quitLock"]
    /\ UNCHANGED ps
    /\ DiffLayersIdle

\* (a faulty variant of WaitTimeoutLock: the channel is left in the wait map)
WaitTimeoutLockKeeps(g) ==
    /\ gor[g].pc = "timeoutLock"
    /\ LockFree
    /\ gor' = [gor EXCEPT ![g] = Returned(g, NilExt, errPeerWaitTimeout)]
    /\ UNCHANGED ps
    /\ DiffLayersIdle

\* waitSnapExtension after the timeout, lines 200-203
WaitTimeoutLock(g) ==
    /\ gor[g].pc = "timeoutLock"
    /\ LockFree
    /\ ps' = [ps EXCEPT ![WaitField[gor[g].proto]] = MapDelete(@, gor[g].id)]
    /\ gor' = [gor EXCEPT ![g] = Returned(g, NilExt, errPeerWaitTimeout)]
    /\ DiffLayersIdle

\* after the quit channel was closed, lines 206-209 and 271-274
WaitQuitLock(g) ==
    /\ gor[g].pc = "quitLock"
    /\ LockFree
    /\ ps' = [ps EXCEPT ![WaitField[gor[g].proto]] = MapDelete(@, gor[g].id)]
    /\ gor' = [gor EXCEPT ![g] = Returned(g, NilExt, errPeerSetClosed)]
    /\ DiffLayersIdle

\* (a faulty variant of WaitTryLock: the timeout branch waits for the lock
\* with Lock, as waitSnapExtension does)
WaitTryLockBlocking(g) ==
    /\ gor[g].pc \in {"timeoutTryLock", "retry"}
    /\ LockFree
    /\ ps' = [ps EXCEPT ![WaitField[gor[g].proto]] = MapDelete(@, gor[g].id)]
    /\ gor' = [gor EXCEPT ![g] = Returned(g, NilExt, errPeerWaitTimeout)]
    /\ DiffLayersIdle

\* waitBscExtension after the timeout, lines 250-254 and 261-266: TryLock
\* takes a free lock, and a failed one sends the goroutine to the inner loop.
WaitTryLock(g) ==
    /\ gor[g].pc \in {"timeoutTryLock", "retry"}
    /\ IF LockFree
       THEN /\ ps' = [ps EXCEPT ![WaitField[gor[g].proto]] = MapDelete(@, gor[g].id)]
            /\ gor' = [gor EXCEPT ![g] = Returned(g, NilExt, errPeerWaitTimeout)]
       ELSE /\ gor' = [gor EXCEPT ![g].pc = "retry"]
            /\ UNCHANGED ps
    /\ DiffLayersIdle

\* waitBscExtension, lines 258-260: the peer arrives late and is discarded
WaitRetryReceive(g) ==
    /\ gor[g].pc = "retry"
    /\ \E r \in SendersOn(g) :
          /\ gor' = SendCompletes([gor EXCEPT ![g] = Returned(g, NilExt, errPeerWaitTimeout)], r)
          /\ ps' = [ps EXCEPT !.lock = Unlocked]
    /\ DiffLayersIdle

InitPeers == Init /\ bloomAccountHasherOffset = 0

NextPeers ==
    \/ \E id \in PeerIds, ext \in ExtArgs, bscExt \in ExtArgs : RegisterPeer(id, ext, bscExt)
    \/ \E id \in PeerIds : UnregisterPeer(id)
    \/ Close
    \/ \E g \in Registerers, proto \in Protos, id \in PeerIds, runningEth \in BOOLEAN :
          RegisterExtension(g, proto, id, runningEth)
    \/ \E g \in Waiters, proto \in Protos, id \in PeerIds, runningExt \in BOOLEAN :
          WaitExtension(g, proto, id, runningExt)
    \/ \E g \in Waiters : WaitReceive(g)
    \/ \E g \in Waiters : WaitTimeout(g)
    \/ \E g \in Waiters : WaitQuit(g)
    \/ \E g \in Waiters : WaitTimeoutLock(g)
    \/ \E g \in Waiters : WaitQuitLock(g)
    \/ \E g \in Waiters : WaitTryLock(g)
    \/ \E g \in Waiters : WaitRetryReceive(g)

SpecPeers == InitPeers /\ [][NextPeers]_vars

-----------------------------------------------------------------------------
\* the smaller of two numbers
Min(a, b) == IF a < b THEN a ELSE b

\* the entries of a list are pairwise different
Distinct(list) == \A i, j \in DOMAIN list : i # j => list[i] # list[j]

(* C17: headPeers(num) returns exactly min(num, len(peers)) peers, all of them
   registered and no two the same, whatever the order in which the range
   visits the map; in particular never more than num. *)
HeadPeersExact ==
    \A num \in 0..MaxNum, order \in RangeOrders(ps) :
        LET list == headPeers(ps, num, order)
        IN /\ Len(list) = Min(num, len(ps))
           /\ Len(list) <= num
           /\ Distinct(list)
           /\ \A i \in DOMAIN list : list[i] \in DOMAIN ps.peers

-----------------------------------------------------------------------------
\* The waiter that made the channel ch.
WaitersOf(G, ch) == {w \in Waiters : G[w].ch = ch}

\* The waiter has left the select through its timeout case.
TimedOut(G, w) == G[w].pc \in {"timeoutLock", "timeoutTryLock", "retry"}

(* C18: the extension rendezvous, for snap and for bsc alike.  (1) A
   registration that succeeds while no eth side waits for the id holds the
   extension pending; a pending extension stays as it is until a wait takes
   it; and a wait for the id (not yet registered as a peer) returns exactly
   the pending extension at once, with no error, and removes it from the
   pending set.  (2) A registration that finds the eth side waiting adds
   nothing to the pending set, and unless that waiter has timed out the waiter
   is at its receive and takes exactly the registered extension. *)
ExtensionRendezvous ==
    [][/\ \A r \in Registerers :
             (gor[r].calls # gor'[r].calls /\ gor'[r].pc = "returned" /\ gor'[r].err = NoErr)
                => /\ gor'[r].id \in DOMAIN ps'[PendField[gor'[r].proto]]
                   /\ ps'[PendField[gor'[r].proto]][gor'[r].id] = gor'[r].ext
       /\ \A proto \in Protos : \A id \in DOMAIN ps[PendField[proto]] :
             IF id \in DOMAIN ps'[PendField[proto]]
             THEN ps'[PendField[proto]][id] = ps[PendField[proto]][id]
             ELSE \E g \in Waiters :
                     /\ gor[g].calls # gor'[g].calls
                     /\ gor'[g].pc = "returned"
                     /\ gor'[g].peer = ps[PendField[proto]][id]
       /\ \A g \in Waiters, proto \in Protos, id \in PeerIds :
             (/\ id \in DOMAIN ps[PendField[proto]]
              /\ id \notin DOMAIN ps.peers
              /\ WaitExtension(g, proto, id, TRUE))
                => /\ gor'[g].pc = "returned"
                   /\ gor'[g].peer = ps[PendField[proto]][id]
                   /\ gor'[g].err = NoErr
                   /\ id \notin DOMAIN ps'[PendField[proto]]
       /\ \A r \in Registerers :
             gor'[r].pc = "send"
                => /\ gor'[r].id \notin DOMAIN ps'[PendField[gor'[r].proto]]
                   /\ \E w \in WaitersOf(gor', gor'[r].ch) :
                         /\ gor'[w].id = gor'[r].id /\ gor'[w].proto = gor'[r].proto
                         /\ ~TimedOut(gor', w) => gor'[w].pc = "select"
       /\ \A g \in Waiters :
             (gor[g].pc = "select" /\ WaitReceive(g))
                => \E r \in SendersOn(g) :
                      /\ gor'[g].peer = gor[r].ext /\ gor'[g].err = NoErr
                      /\ gor'[r].pc = "returned" /\ gor'[r].err = NoErr]_vars

-----------------------------------------------------------------------------
(* C19: once the set is closed it stays closed, every registerPeer call
   returns errPeerSetClosed and leaves the set as it is, and no step adds an
   entry to the peers map. *)
ClosedSetRejectsPeers ==
    [][ps.closed =>
          /\ ps'.closed
          /\ \A id \in PeerIds, ext \in ExtArgs, bscExt \in ExtArgs :
                registerPeer(ps, id, ext, bscExt) = [ps |-> ps, err |-> errPeerSetClosed]
          /\ DOMAIN ps'.peers \subseteq DOMAIN ps.peers]_vars

\* The set is closed, holds a peer, and has room for one that a registerPeer
\* could have added.
ClosedSetWitness ==
    /\ ps.closed
    /\ DOMAIN ps.peers # {}
    /\ DOMAIN ps.peers # PeerIds

-----------------------------------------------------------------------------
\* unregisterPeer of an id that is not registered fails and changes nothing.
UnregisterUnknownFails ==
    \A id \in PeerIds \ DOMAIN ps.peers :
        unregisterPeer(ps, id) = [ps |-> ps, err |-> errPeerNotRegistered]

(* C20 as stated: registerPeer of an id already in peers returns
   errPeerAlreadyRegistered, unregisterPeer of an id not in peers returns
   errPeerNotRegistered, and both leave the whole peer set as it was. *)
FailedRegistrationsUnchangedAnySet ==
    /\ \A id \in DOMAIN ps.peers, ext \in ExtArgs, bscExt \in ExtArgs :
          registerPeer(ps, id, ext, bscExt) = [ps |-> ps, err |-> errPeerAlreadyRegistered]
    /\ UnregisterUnknownFails

(* C20, amended: on a set that is not closed registerPeer of an id already in
   peers returns errPeerAlreadyRegistered (on a closed set the closed check
   comes first and the error is errPeerSetClosed); unregisterPeer of an id
   not in peers returns errPeerNotRegistered; in every one of these cases
   peers, snapPeers and the wait and pending maps are as before the call. *)
FailedRegistrationsUnchanged ==
    /\ \A id \in DOMAIN ps.peers, ext \in ExtArgs, bscExt \in ExtArgs :
          registerPeer(ps, id, ext, bscExt) =
             [ps |-> ps, err |-> IF ps.closed THEN errPeerSetClosed
                                 ELSE errPeerAlreadyRegistered]
    /\ UnregisterUnknownFails

\* An open set with a registered snap peer, an id that is not registered, an
\* extension pending and an eth side waiting.
FailedRegistrationsWitness ==
    /\ ~ps.closed
    /\ ps.snapPeers > 0
    /\ DOMAIN ps.peers # PeerIds
    /\ \E proto \in Protos : DOMAIN ps[PendField[proto]] # {}
    /\ \E proto \in Protos : DOMAIN ps[WaitField[proto]] # {}

-----------------------------------------------------------------------------
(* The peer set under the scheduler's guarantees: a goroutine in a select
   leaves it through one of its cases (the timer of the timeout case fires in
   the end), a rendezvous that both sides are ready for happens, and a
   goroutine waiting for ps.lock, or retrying TryLock, gets the lock when it
   stays free. *)
SelectStep(g) == WaitReceive(g) \/ WaitTimeout(g) \/ WaitQuit(g)

FairSpecPeers ==
    /\ SpecPeers
    /\ \A g \in Waiters :
          /\ WF_vars(SelectStep(g))
          /\ WF_vars(WaitTimeoutLock(g))
          /\ WF_vars(WaitQuitLock(g))
          /\ WF_vars(WaitTryLock(g))
          /\ WF_vars(WaitRetryReceive(g))

\* r is blocked in the channel send of a register*Extension with ps.lock held.
BlockedInSend(r) == gor[r].pc = "send" /\ ps.lock = r

(* C21: no reachable state has registerSnapExtension blocked in its channel
   send with ps.lock held while the waitSnapExtension that made the channel is
   blocked acquiring ps.lock, so that a waitSnapExtension whose timeout fired
   always goes on to return errPeerWaitTimeout. *)
SnapWaitNeverDeadlocks ==
    \A r \in Registerers, w \in Waiters :
        ~(/\ BlockedInSend(r)
          /\ gor[r].proto = "snap"
          /\ gor[w].ch = gor[r].ch
          /\ gor[w].pc \in {"timeoutLock", "quitLock"})

-----------------------------------------------------------------------------
\* w has left the select of waitBscExtension through its timeout case.
BscTimedOut(w) == gor[w].proto = "bsc" /\ gor[w].pc \in {"timeoutTryLock", "retry"}

(* C22: once the timeout of a waitBscExtension has fired, the call returns
   errPeerWaitTimeout in the end, with no extension even when one arrives
   late; and a registerBscExtension that is blocked in its send to that
   waiter returns in the end and ps.lock is released. *)
BscTimeoutCompletes ==
    /\ \A w \in Waiters :
          BscTimedOut(w)
             ~> (gor[w].pc = "returned" /\ gor[w].err = errPeerWaitTimeout
                 /\ gor[w].peer = NilExt)
    /\ \A r \in Registerers :
          (BlockedInSend(r) /\ \E w \in Waiters : BscTimedOut(w) /\ gor[w].ch = gor[r].ch)
             ~> (gor[r].pc = "returned" /\ ps.lock = Unlocked)

\* The timeout has fired, TryLock has failed, and the registering goroutine
\* is in its send to this waiter with ps.lock held.
BscTimeoutWitness ==
    \E w \in Waiters, r \in Registerers :
        /\ gor[w].proto = "bsc" /\ gor[w].pc = "retry"
        /\ BlockedInSend(r) /\ gor[r].ch = gor[w].ch

-----------------------------------------------------------------------------
\* w is inside waitSnapExtension or waitBscExtension, past the unlock of
\* line 193/242 and before its return.
InWait(w) == gor[w].pc \in {"select", "timeoutLock", "quitLock", "timeoutTryLock", "retry"}

\* The next step of waiter w, whichever it is.
WaitStep(w) ==
    \/ SelectStep(w)
    \/ WaitTimeoutLock(w)
    \/ WaitQuitLock(w)
    \/ WaitTryLock(w)
    \/ WaitRetryReceive(w)

(* C23: after close() every goroutine inside waitSnapExtension or
   waitBscExtension returns in the end, whatever register*Extension calls run
   beside it; in particular such a goroutine is never left without a step it
   can take. *)
ClosedSetReleasesWaiters ==
    \A w \in Waiters : (ps.closed /\ InWait(w)) => ENABLED WaitStep(w)

-----------------------------------------------------------------------------
\* The diff layers whose read lock the reading thread holds, the most recently
\* acquired first: the lock AccountRLP/Storage takes for the bloom filter test,
\* and those of the nested accountRLP/storage calls.
ReaderLocks == IF rd.pc = "top_runlock" THEN <<rd.start>> \o rd.held ELSE rd.held

\* How many read locks of layer l the reading thread holds.
ReaderLocksOn(l) == Cardinality({i \in 1..Len(ReaderLocks) : ReaderLocks[i] = l})

(* C24: during an account or storage read the reading thread holds the read
   lock of at most one diff layer at any instant. *)
ReaderHoldsOneLock == Len(ReaderLocks) <= 1

(* C24, amended: the locks the reading thread holds are those of one run of
   the parent chain, each acquired after the lock of its child and with the
   child's lock still held, never two of one layer; the lock taken for the
   bloom filter test is released before the walk begins. *)
ReaderLocksFollowChain ==
    /\ \A i \in 1..(Len(ReaderLocks) - 1) :
          ReaderLocks[i] = layers[ReaderLocks[i + 1]].parent
    /\ \A l \in DOMAIN rwlock : rwlock[l].readers = ReaderLocksOn(l)
    /\ \A l \in DOMAIN rwlock : ReaderLocksOn(l) <= 1
    /\ rd.pc = "top_runlock" => rd.held = <<>>

\* The walk has reached the parent with the child's read lock still held.
ReaderHoldsTwoLocks ==
    /\ Len(ReaderLocks) = 2
    /\ rwlock[ReaderLocks[1]].readers = 1
    /\ rwlock[ReaderLocks[2]].readers = 1

-----------------------------------------------------------------------------
(* C25: storageBloomHash(a, s) is the big-endian 64-bit value of the 8 bytes
   of a that start at the account bloom offset, XORed with that of the 8 bytes
   of s that start at the storage bloom offset. *)
StorageBloomHashMixesOffsets ==
    \A a \in Accounts, s \in Slots :
        storageBloomHash(a, s) =
            XorUint64(Uint64At(HashBytes[a], bloomAccountHasherOffset),
                      Uint64At(HashBytes[s], bloomStorageHasherOffset))

(* C25, amended: storageBloomHash(a, s) is the big-endian 64-bit value whose
   i-th byte is the XOR of the bytes of a and of s at the storage bloom offset
   plus i: both hashes are read at the storage offset, the account offset
   plays no part. *)
StorageBloomHashUsesStorageOffset ==
    \A a \in Accounts, s \in Slots :
        /\ Len(storageBloomHash(a, s)) = BloomWindow
        /\ \A i \in 1..BloomWindow :
              storageBloomHash(a, s)[i] =
                  XorByte(HashBytes[a][bloomStorageHasherOffset + i],
                          HashBytes[s][bloomStorageHasherOffset + i])

\* A layer carries a slot whose bloom key was computed while the two offsets
\* select different windows of the account hash.
StorageBloomHashWitness ==
    \E l \in DOMAIN layers : \E a \in DOMAIN StorageData(Heap, l) :
        /\ DOMAIN SlotData(Heap, l, a) # {}
        /\ Uint64At(HashBytes[a], bloomAccountHasherOffset)
              # Uint64At(HashBytes[a], bloomStorageHasherOffset)
        /\ \A s \in DOMAIN SlotData(Heap, l, a) :
              BloomContainsHash(layers[l].diffed, storageBloomHash(a, s))

-----------------------------------------------------------------------------
\* The fields flatten fills in the layer M it returns for D merged into P,
\* read in the heap HP before the call and the heap after it.
ComboOf(HP, P, D, M) ==
    /\ layers'[M].root = layers[D].root
    /\ layers'[M].parent = HP.layers[P].parent
    /\ layers'[M].origin = HP.layers[P].origin
    /\ layers'[M].diffed = layers[D].diffed
    /\ layers'[M].memory = HP.layers[P].memory + layers[D].memory
    /\ layers'[M].stale = FALSE
    /\ layers'[M].accountList = NilAccountList
    /\ layers'[M].storageList = << >>

(* C26: the layer D.flatten() returns, D having the diff parent P, has D's
   root, P's parent, P's origin, D's bloom, memory P.memory + D.memory, the
   stale flag clear and empty sorted-list caches. *)
FlattenResultOfDirectParent ==
    [][\A dl \in LayerIds(Heap) :
          FlattenReturns(dl) => ComboOf(CallHeap, layers[dl].parent, dl, FlattenOut(dl))]_vars

(* C26, with P taken as the layer D is merged into, read just before the
   merge: the layer the nested flatten of D's parent returned, which is D's
   parent itself only when that sits on the disk layer. *)
FlattenResultFields ==
    [][\A dl \in LayerIds(Heap) :
          FlattenReturns(dl) =>
             ComboOf(Heap, MergedInto(dl), dl, FlattenOut(dl))]_vars

\* A layer flatten returned for a child whose parent had a diff parent of its
\* own and a filled list cache, with memory charged on every level.
FlattenResultWitness ==
    \E c \in LayerIds(Heap), d \in LayerIds(Heap) :
        /\ IsCombo(Heap, c) /\ ~layers[c].stale
        /\ d # c /\ layers[d].root = layers[c].root
        /\ IsDiff(layers[d].parent)
        /\ IsDiff(layers[layers[d].parent].parent)
        /\ ~layers[layers[d].parent].accountList.isNil
        /\ layers[c].memory > layers[d].memory + layers[layers[d].parent].memory
        /\ layers[c].accountList = NilAccountList

-----------------------------------------------------------------------------
(* C27: flatten() on a diff layer whose parent is the disk layer returns that
   same layer and changes nothing: the layer's maps, bloom, memory, parent,
   origin and stale flag are as before the call, and so is everything else. *)
FlattenOverDiskIsNoOp ==
    [][\A dl \in LayerIds(Heap) :
          (~IsDiff(layers[dl].parent) /\ Flatten(dl)) =>
             /\ FlattenOut(dl) = dl
             /\ layers' = layers
             /\ AccountData(Heap', dl) = AccountData(Heap, dl)
             /\ SlotsOf(Heap', dl) = SlotsOf(Heap, dl)
             /\ Heap' = Heap
             /\ panicked' = panicked]_vars

\* A live layer directly over the disk layer, with accounts, storage and
\* memory of its own, on which flatten returns the layer itself.
FlattenOverDiskWitness ==
    \E dl \in LayerIds(Heap) :
        /\ ~IsDiff(layers[dl].parent) /\ ~layers[dl].stale
        /\ DOMAIN AccountData(Heap, dl) # {}
        /\ DOMAIN StorageData(Heap, dl) # {}
        /\ layers[dl].memory > 0
        /\ ENABLED Flatten(dl)
        /\ flatten(Heap, dl).out = dl

-----------------------------------------------------------------------------
\* The entries of the maps of dl: its account keys and its (account, slot)
\* keys, each with the length of its blob.
EntryLengths(H, dl) ==
    [k \in {<<h>> : h \in DOMAIN AccountData(H, dl)}
           \cup UNION {{<<a, s>> : s \in DOMAIN SlotData(H, dl, a)} :
                          a \in DOMAIN StorageData(H, dl)} |->
        IF Len(k) = 1 THEN Len(AccountData(H, dl)[k[1]])
        ELSE Len(SlotData(H, dl, k[1])[k[2]])]

\* A layer as newDiffLayer returned it: nothing was merged into it and it is
\* not the product of a merge.
AsConstructed(H, dl) == ~H.layers[dl].stale /\ ~IsCombo(H, dl)

(* C28: right after newDiffLayer returns, the memory of the layer is the sum
   of 32 + len(blob) over its account entries plus the sum of 32 + len(blob)
   over the slot entries of all accounts of its storage delta. *)
NewLayerMemoryIsDeltaSize ==
    \A dl \in LayerIds(Heap) :
        AsConstructed(Heap, dl) =>
            layers[dl].memory =
                SumOver([k \in DOMAIN EntryLengths(Heap, dl) |->
                            HashLength + EntryLengths(Heap, dl)[k]])

\* A constructed layer with an account entry and slot entries of its own,
\* among them an empty blob and a non-empty one.
NewLayerMemoryWitness ==
    \E dl \in LayerIds(Heap), a \in Accounts :
        /\ AsConstructed(Heap, dl)
        /\ a \in DOMAIN StorageData(Heap, dl)
        /\ \E s \in DOMAIN SlotData(Heap, dl, a) : SlotData(Heap, dl, a)[s] # << >>
        /\ \E h \in DOMAIN AccountData(Heap, dl) : AccountData(Heap, dl)[h] = << >>
        /\ layers[dl].memory = 2 * HashLength + 1

-----------------------------------------------------------------------------
(* C29: the first AccountList() call on a layer adds 32 times the number of
   account keys in the returned list to the layer's memory, the first
   StorageList(a) call for an account the layer tracks adds 32 times the
   number of slot keys in the returned list, and a call that returns a list
   already cached leaves memory as it was. *)
ListCallsChargeKeyBytes ==
    [][/\ \A dl \in LayerIds(Heap) :
             CallAccountList(dl) => layers'[dl].memory = layers[dl].memory
       /\ \A dl \in LayerIds(Heap), a \in Accounts :
             CallStorageList(dl, a) => layers'[dl].memory = layers[dl].memory
       /\ \A c \in DOMAIN lc :
             (/\ CallGenerate(c)
              /\ panicked' = NoPanic
              /\ <<lc[c].dl, lc[c].account>> \notin ListsCached(Heap)) =>
                layers'[lc[c].dl].memory =
                    layers[lc[c].dl].memory + HashLength * Len(Generated(Heap, c).out.keys)]_vars

-----------------------------------------------------------------------------
(* AccountList and StorageList called side by side on one layer *)

\* The calls one goroutine makes.
MaxListCalls == 2

\* What a call asks for: "" is AccountList(), an account is StorageList(account).
ListTargets == {""} \cup Accounts

\* dl.accountList, or dl.storageList[account]: nil when nothing is cached
CachedList(H, dl, account) ==
    IF account = "" THEN H.layers[dl].accountList
    ELSE IF account \in DOMAIN H.layers[dl].storageList
    THEN [isNil |-> FALSE, keys |-> H.layers[dl].storageList[account]]
    ELSE NilAccountList

\* StorageList, line 624: the layer tracks the account
Tracked(H, dl, account) == account = "" \/ account \in DOMAIN StorageData(H, dl)

ListCallerOnly ==
    UNCHANGED <<peerVars, bloomAccountHasherOffset, bloomStorageHasherOffset, panicked,
                rd, fl, up, preHeap, fs, pf, vj>>

\* a call of dl.AccountList() or dl.StorageList(account) begins
ListBegin(c, dl, account) ==
    /\ Running
    /\ lc[c].pc \in {"idle", "done"}
    /\ lc[c].calls < MaxListCalls
    /\ lc' = [lc EXCEPT ![c] = [IdleListCaller EXCEPT !.pc = "rlock", !.dl = dl,
                                                      !.account = account,
                                                      !.calls = lc[c].calls + 1]]
    /\ UNCHANGED <<heapVars, rwlock>>
    /\ ListCallerOnly

\* lines 596-597 / 623-633: dl.lock.RLock() and the look into the cache
ListRLock(c) ==
    /\ Running
    /\ lc[c].pc = "rlock"
    /\ ReadLockFree(lc[c].dl)
    /\ rwlock' = RLock(rwlock, lc[c].dl)
    /\ lc' = [lc EXCEPT ![c].pc = "runlock",
                        ![c].list = CachedList(Heap, lc[c].dl, lc[c].account)]
    /\ UNCHANGED heapVars
    /\ ListCallerOnly

\* lines 598-602 / 626-635: dl.lock.RUnlock(); the call returns nil for an
\* account the layer does not track, the cached list when it saw one, and goes
\* on to generate the list otherwise
ListRUnlock(c) ==
    /\ Running
    /\ lc[c].pc = "runlock"
    /\ rwlock' = RUnlock(rwlock, lc[c].dl)
    /\ lc' = IF Tracked(Heap, lc[c].dl, lc[c].account) /\ lc[c].list.isNil
             THEN [lc EXCEPT ![c].pc = "lock"]
             ELSE [lc EXCEPT ![c].pc = "done", ![c].out = lc[c].list]
    /\ UNCHANGED heapVars
    /\ ListCallerOnly

\* lines 604 / 638: dl.lock.Lock()
ListLock(c) ==
    /\ Running
    /\ lc[c].pc = "lock"
    /\ WriteLockFree(lc[c].dl)
    /\ rwlock' = [rwlock EXCEPT ![lc[c].dl].writer = TRUE]
    /\ lc' = [lc EXCEPT ![c].pc = "generate"]
    /\ UNCHANGED heapVars
    /\ ListCallerOnly

\* (a faulty variant of ListGenerate: the write lock is not released)
ListGenerateKeepsLock(c) ==
    /\ Running
    /\ lc[c].pc = "generate"
    /\ LET r == IF lc[c].account = ""
                THEN LET g == AccountListGenerate(Heap, lc[c].dl)
                     IN [heap |-> g.heap, out |-> [isNil |-> FALSE, keys |-> g.out]]
                ELSE StorageListGenerate(Heap, lc[c].dl, lc[c].account)
       IN /\ SetHeap(r.heap)
          /\ lc' = [lc EXCEPT ![c].pc = "done", ![c].out = r.out]
    /\ UNCHANGED rwlock
    /\ ListCallerOnly

\* lines 607-610 / 640-644: the list is generated, cached and charged, whatever
\* the cache holds by now; the deferred Unlock runs and the call returns
ListGenerate(c) ==
    /\ Running
    /\ lc[c].pc = "generate"
    /\ LET r == IF lc[c].account = ""
                THEN LET g == AccountListGenerate(Heap, lc[c].dl)
                     IN [heap |-> g.heap, out |-> [isNil |-> FALSE, keys |-> g.out]]
                ELSE StorageListGenerate(Heap, lc[c].dl, lc[c].account)
       IN /\ SetHeap(r.heap)
          /\ lc' = [lc EXCEPT ![c].pc = "done", ![c].out = r.out]
    /\ rwlock' = [rwlock EXCEPT ![lc[c].dl].writer = FALSE]
    /\ ListCallerOnly

\* One layer over the disk layer, made by newDiffLayer from a delta of up to
\* ConcDeltaEntries entries.
InitListConc ==
    /\ PeersIdle
    /\ lc = [c \in ListCallers |-> IdleListCaller]
    /\ up = IdleUpdater
    /\ pf = IdlePrefetch
    /\ vj = IdleJournal
    /\ bloomAccountHasherOffset = 0
    /\ bloomStorageHasherOffset = OffsetRange - 1
    /\ \E d \in ConcDeltas :
          preHeap = newDiffLayer(EmptyHeap, DiskId, CHOOSE r \in FreshRoots(EmptyHeap) : TRUE,
                                 d.accounts, d.storage).heap
    /\ layers = preHeap.layers
    /\ accountMaps = preHeap.accountMaps
    /\ storageMaps = preHeap.storageMaps
    /\ slotMaps = preHeap.slotMaps
    /\ panicked = NoPanic
    /\ rd = IdleReader
    /\ fl = IdleFlattener
    /\ fs = IdleSiblings
    /\ rwlock = [l \in LayerIds(preHeap) |-> FreeLock]

NextListConc ==
    \/ \E c \in ListCallers, dl \in LayerIds(Heap), account \in ListTargets :
          ListBegin(c, dl, account)
    \/ \E c \in ListCallers : ListRLock(c)
    \/ \E c \in ListCallers : ListRUnlock(c)
    \/ \E c \in ListCallers : ListLock(c)
    \/ \E c \in ListCallers : ListGenerate(c)

SpecListConc == InitListConc /\ [][NextListConc]_vars

\* What the cached storage lists of a layer cost when each was charged once:
\* the k-th list cached is charged 32 * k + 32 (line 643).
RECURSIVE StorageListCharges(_)
StorageListCharges(k) ==
    IF k = 0 THEN 0 ELSE k * HashLength + HashLength + StorageListCharges(k - 1)

(* C30: under concurrent first-time AccountList() calls, or StorageList(a)
   calls for one account, on one layer, the sorted list is materialised and
   charged to the layer's memory exactly once, and all callers receive the
   same list. *)
ListsChargedOnce ==
    /\ \A dl \in LayerIds(Heap) :
          (\A c \in ListCallers : lc[c].pc # "generate") =>
             layers[dl].memory =
                 SumOver([k \in DOMAIN EntryLengths(Heap, dl) |->
                             HashLength + EntryLengths(Heap, dl)[k]])
                 + (IF layers[dl].accountList.isNil THEN 0
                    ELSE HashLength * Len(layers[dl].accountList.keys))
                 + StorageListCharges(Cardinality(DOMAIN layers[dl].storageList))
    /\ \A c1, c2 \in ListCallers :
          (/\ lc[c1].pc = "done" /\ lc[c2].pc = "done"
           /\ lc[c1].dl = lc[c2].dl /\ lc[c1].account = lc[c2].account)
             => lc[c1].out = lc[c2].out

-----------------------------------------------------------------------------
(* Reads, list calls, Update and flatten side by side on one chain *)

\* The delta of the concurrent Update.
UpdateDelta == [accounts |-> (A2 :> <<1>>), storage |-> << >>]

UpdaterOnly ==
    UNCHANGED <<peerVars, pf, vj, lc, bloomAccountHasherOffset, bloomStorageHasherOffset,
                rd, fl, preHeap, fs>>

\* parent.Update(..) begins: newDiffLayer allocates the layer (lines 281-287)
\* and rebloom takes the write lock of the new layer, which no other goroutine
\* knows yet (line 319)
UpdateBegin(parent) ==
    /\ up.pc = "idle"
    /\ Running
    /\ NumUpdates(Heap) < MaxUpdates
    /\ Len(layers) < MaxLayers
    /\ up' = [up EXCEPT !.pc = IF IsDiff(parent) THEN "rlock" ELSE "finish",
                        !.parent = parent,
                        !.accounts = UpdateDelta.accounts,
                        !.storage = UpdateDelta.storage]
    /\ UNCHANGED <<heapVars, rwlock, panicked>>
    /\ UpdaterOnly

\* rebloom, line 330: parent.lock.RLock(), with the new layer's lock held
UpdateRLock ==
    /\ Running
    /\ up.pc = "rlock"
    /\ ReadLockFree(up.parent)
    /\ rwlock' = RLock(rwlock, up.parent)
    /\ up' = [up EXCEPT !.pc = "runlock"]
    /\ UNCHANGED <<heapVars, panicked>>
    /\ UpdaterOnly

\* rebloom, lines 331-332: the parent's bloom is copied, parent.lock.RUnlock()
UpdateRUnlock ==
    /\ Running
    /\ up.pc = "runlock"
    /\ rwlock' = RUnlock(rwlock, up.parent)
    /\ up' = [up EXCEPT !.pc = "finish"]
    /\ UNCHANGED <<heapVars, panicked>>
    /\ UpdaterOnly

\* rebloom, lines 336-343, and newDiffLayer, lines 298-314: the keys are
\* added, the new layer's lock is released, the memory is summed and the layer
\* is returned
UpdateFinish ==
    /\ Running
    /\ up.pc = "finish"
    /\ LET r == newDiffLayer(Heap, up.parent, CHOOSE x \in FreshRoots(Heap) : TRUE,
                             up.accounts, up.storage)
       IN /\ SetHeap(r.heap)
          /\ panicked' = r.panic
    /\ rwlock' = Append(rwlock, FreeLock)
    /\ up' = [up EXCEPT !.pc = "done"]
    /\ UpdaterOnly

\* The starting points: the bloom offsets, the deltas of D0 = disk.Update(..)
\* and D1 = D0.Update(..), and the key the reader asks for.  In the first the
\* flatten copies an account and a slot and the read finds its key in D0; in
\* the second the blooms are empty and the read goes to the origin; in the
\* third A1 and A2 share their bloom key, so the read of A1 walks both layers
\* and ends on the disk layer.
LockScenarios ==
    { [offs |-> <<0, OffsetRange - 1>>, key |-> <<A1>>,
       d0 |-> [accounts |-> (A1 :> <<1>>), storage |-> (A1 :> (S2 :> <<1>>))],
       d1 |-> [accounts |-> (A2 :> <<1>>), storage |-> (A1 :> (S1 :> <<1>>))]],
      [offs |-> <<0, OffsetRange - 1>>, key |-> <<A1, S1>>,
       d0 |-> [accounts |-> << >>, storage |-> << >>],
       d1 |-> [accounts |-> << >>, storage |-> << >>]],
      [offs |-> <<OffsetRange - 1, 0>>, key |-> <<A1>>,
       d0 |-> [accounts |-> (A2 :> <<1>>), storage |-> << >>],
       d1 |-> [accounts |-> (A2 :> << >>), storage |-> << >>]] }

InitLocks ==
    /\ PeersIdle
    /\ lc = [c \in ListCallers |-> IdleListCaller]
    /\ up = IdleUpdater
    /\ pf = IdlePrefetch
    /\ vj = IdleJournal
    /\ \E sc \in LockScenarios :
          /\ bloomAccountHasherOffset = sc.offs[1]
          /\ bloomStorageHasherOffset = sc.offs[2]
          /\ rd = [IdleReader EXCEPT !.key = sc.key]
          /\ preHeap =
                LET r0 == newDiffLayer(EmptyHeap, DiskId,
                                       CHOOSE r \in FreshRoots(EmptyHeap) : TRUE,
                                       sc.d0.accounts, sc.d0.storage)
                IN newDiffLayer(r0.heap, r0.out, CHOOSE r \in FreshRoots(r0.heap) : TRUE,
                                sc.d1.accounts, sc.d1.storage).heap
    /\ layers = preHeap.layers
    /\ accountMaps = preHeap.accountMaps
    /\ storageMaps = preHeap.storageMaps
    /\ slotMaps = preHeap.slotMaps
    /\ fl = [IdleFlattener EXCEPT !.dl = Len(preHeap.layers)]
    /\ fs = IdleSiblings
    /\ rwlock = [l \in LayerIds(preHeap) |-> FreeLock]
    /\ panicked = NoPanic

\* The steps of each goroutine.
ReaderStep ==
    \/ ReadTopRLock \/ ReadTopRUnlock \/ ReadOrigin \/ ReadWalkRLock
    \/ ReadWalkLookup \/ ReadWalkDisk \/ ReadWalkReturn

FlattenerStep ==
    \/ FlattenLock \/ FlattenSwap
    \/ \E h \in Accounts : FlattenCopyAccount(h)
    \/ \E a \in Accounts : FlattenStorageEntry(a)
    \/ \E s \in Slots : FlattenCopySlot(s)
    \/ FlattenReturn

ListCallerStep(c) == ListRLock(c) \/ ListRUnlock(c) \/ ListLock(c) \/ ListGenerate(c)

UpdaterStep == UpdateRLock \/ UpdateRUnlock \/ UpdateFinish

NextLocks ==
    \/ \E start \in ReadStarts : rd.pc = "idle" /\ ReadBegin(start)
    \/ ReaderStep
    \/ FlattenBegin
    \/ FlattenerStep
    \/ \E dl \in LayerIds(Heap), account \in ListTargets :
          lc[1].pc = "idle" /\ ListBegin(1, dl, account)
    \/ ListCallerStep(1)
    \/ \E parent \in LayerIds(Heap) : UpdateBegin(parent)
    \/ UpdaterStep

SpecLocks == InitLocks /\ [][NextLocks]_vars

\* The Go scheduler runs every goroutine that can run, and a goroutine waiting
\* in RLock or Lock is woken when the lock is released.  Each goroutine makes
\* a bounded number of calls, so weak fairness of its steps is all that is
\* assumed.
FairSpecLocks ==
    /\ SpecLocks
    /\ WF_vars(ReaderStep)
    /\ WF_vars(UpdaterStep)
    /\ WF_vars(FlattenerStep)
    /\ WF_vars(ListCallerStep(1))

\* The goroutine is inside one of its operations.
ReaderInside == rd.pc \notin {"idle", "done"}
FlattenerInside == fl.pc \notin {"idle", "returned", "panicked"}
ListCallerInside(c) == lc[c].pc \notin {"idle", "done"}
UpdaterInside == up.pc \notin {"idle", "done"}

\* No goroutine is inside an operation.
Quiescent ==
    /\ ~ReaderInside /\ ~FlattenerInside /\ ~UpdaterInside
    /\ \A c \in ListCallers : ~ListCallerInside(c)

\* A goroutine has called Lock on layer l and waits for it.
WriterWaiting(l) ==
    \/ fl.pc = "lock" /\ fl.parent = l
    \/ \E c \in ListCallers : lc[c].pc = "lock" /\ lc[c].dl = l

\* sync.RWMutex: RLock returns at once only when no writer holds the lock and
\* none waits for it
ReadLockFreeNow(l) == ReadLockFree(l) /\ ~WriterWaiting(l)

\* Some goroutine inside an operation can take its next step, readers being
\* held back by waiting writers.
SomeoneCanStep ==
    \/ /\ ReaderInside
       /\ rd.pc = "top_rlock" => ReadLockFreeNow(rd.start)
       /\ rd.pc = "walk_rlock" => ReadLockFreeNow(rd.cur)
    \/ /\ FlattenerInside
       /\ fl.pc = "lock" => WriteLockFree(fl.parent)
    \/ \E c \in ListCallers :
          /\ ListCallerInside(c)
          /\ lc[c].pc = "rlock" => ReadLockFreeNow(lc[c].dl)
          /\ lc[c].pc = "lock" => WriteLockFree(lc[c].dl)
    \/ /\ UpdaterInside
       /\ up.pc = "rlock" => ReadLockFreeNow(up.parent)

(* C31: the diff-layer locks cannot deadlock: under every interleaving of a
   read, a list call, an Update and a flatten on one chain of diff layers,
   whenever a goroutine is inside an operation one of them can go on, and
   every operation that has begun completes (flatten by returning or by its
   panic), so that in the end no goroutine is left inside an operation. *)
DiffLayerOperationsComplete ==
    /\ [](Quiescent \/ SomeoneCanStep)
    /\ <>[]Quiescent

\* The read holds the lock of the top layer and waits for the lock of its
\* parent, which the flatten holds for writing, while a list call waits for
\* the write lock of the top layer and the Update waits to read-lock it.
LockContentionWitness ==
    /\ rd.pc = "walk_rlock" /\ rd.held # <<>> /\ rwlock[rd.cur].writer
    /\ fl.pc \notin {"idle", "lock", "returned", "panicked"} /\ fl.parent = rd.cur
    /\ \E c \in ListCallers : lc[c].pc = "lock" /\ lc[c].dl = Head(rd.held)
    /\ up.pc = "rlock" /\ up.parent = Head(rd.held)

-----------------------------------------------------------------------------
\* The registered peers that carry a snap extension.
SnapPeersOf(P) == {id \in DOMAIN P.peers : P.peers[id].snapExt # NilExt}

(* C32: after any sequence of registerPeer, unregisterPeer and close calls,
   snapPeers is the number of entries of peers with a snap extension, so that
   0 <= snapLen() <= len(). *)
SnapPeersCounted ==
    /\ ps.snapPeers = Cardinality(SnapPeersOf(ps))
    /\ 0 <= snapLen(ps)
    /\ snapLen(ps) <= len(ps)

\* The set is closed and holds a peer with a snap extension and one without.
SnapPeersWitness ==
    /\ ps.closed
    /\ \E a, b \in DOMAIN ps.peers :
          ps.peers[a].snapExt # NilExt /\ ps.peers[b].snapExt = NilExt
    /\ snapLen(ps) = 1 /\ len(ps) = 2

-----------------------------------------------------------------------------
\* The channels the calls of goroutine w have made so far.
ChannelsOf(w) == {10 * w + k : k \in 1..gor[w].calls}

\* The channels a wait map holds.
ChannelsIn(waitMap) == {waitMap[id] : id \in DOMAIN waitMap}

(* C33: no peer id is in both snapWait and snapPend, nor in both bscWait and
   bscPend; and once a waitSnapExtension or waitBscExtension has returned,
   with an extension, a timeout or the closed error, the wait maps hold no
   channel made by that call. *)
WaitMapsClean ==
    /\ \A proto \in Protos :
          DOMAIN ps[WaitField[proto]] \cap DOMAIN ps[PendField[proto]] = {}
    /\ \A w \in Waiters :
          gor[w].pc \in {"idle", "returned"} =>
             \A proto \in Protos : ChannelsIn(ps[WaitField[proto]]) \cap ChannelsOf(w) = {}

\* The goroutine's second wait made a channel and has returned with a timeout,
\* while the peer is pending for the other extension.
WaitMapsWitness ==
    \E w \in Waiters :
        /\ gor[w].pc = "returned"
        /\ gor[w].ch # NoChan
        /\ gor[w].err = errPeerWaitTimeout
        /\ gor[w].calls = 2
        /\ \E proto \in Protos : DOMAIN ps[PendField[proto]] # {}

-----------------------------------------------------------------------------
(* statePrefetcher.Prefetch (state_prefetcher.go, lines 48-93): the caller's
   dispatch loop hands the transaction indices over the buffered txChan to
   prefetchThread worker goroutines; a worker leaves when a conversion fails
   or when it sees interruptCh closed. *)

\* const prefetchThread, line 26
prefetchThread == 3

\* transactions of the longest block of PrefetchInputs
MaxTxs == 7

\* A block of n transactions; those at the (zero-based) indices in bad do not
\* convert: TransactionToMessage returns an error for them.
Block(n, bad) == [k \in 1..n |-> IF (k - 1) \in bad THEN "bad" ELSE "ok"]

\* The blocks handed to Prefetch.
PrefetchInputs ==
    {Block(n, bad) : n \in {0, prefetchThread + 1, MaxTxs},
                     bad \in {{}, {1, 5}, {0, 1, 2}, {0, 2, 4, 5}}}

PrefetchWorkers == 1..prefetchThread

OthersIdle ==
    UNCHANGED <<bloomAccountHasherOffset, bloomStorageHasherOffset, heapVars, panicked,
                threadVars, lc, up, peerVars>>

PrefetchOnly == OthersIdle /\ UNCHANGED vj

\* Prefetch is called: txChan is made and the workers are started (lines 52-55)
Prefetch(transactions) ==
    /\ pf.pc = "idle"
    /\ pf' = [pc |-> "loop", transactions |-> transactions, i |-> 0, txChan |-> << >>,
              workers |-> [w \in PrefetchWorkers |-> [pc |-> "select", txIndex |-> 0]],
              interruptCh |-> "open"]
    /\ PrefetchOnly

\* case txIndex := <-txChan (lines 62-63)
WorkerReceive(w) ==
    /\ pf.pc # "idle"
    /\ pf.workers[w].pc = "select"
    /\ pf.txChan # << >>
    /\ pf' = [pf EXCEPT !.txChan = Tail(@),
                        !.workers[w] = [pc |-> "apply", txIndex |-> Head(pf.txChan)]]
    /\ PrefetchOnly

\* TransactionToMessage and ApplyMessage (lines 65-75): the worker returns on a
\* failed conversion and goes round the loop otherwise
WorkerApply(w) ==
    /\ pf.pc # "idle"
    /\ pf.workers[w].pc = "apply"
    /\ pf' = [pf EXCEPT !.workers[w].pc =
                 IF pf.transactions[pf.workers[w].txIndex + 1] = "bad"
                 THEN "exited" ELSE "select"]
    /\ PrefetchOnly

\* case <-interruptCh (lines 77-79)
WorkerInterrupt(w) ==
    /\ pf.pc # "idle"
    /\ pf.workers[w].pc = "select"
    /\ pf.interruptCh = "closed"
    /\ pf' = [pf EXCEPT !.workers[w].pc = "exited"]
    /\ PrefetchOnly

WorkerStep(w) == WorkerReceive(w) \/ WorkerApply(w) \/ WorkerInterrupt(w)

\* case txChan <- i (line 88): the buffer has room for prefetchThread indices
DispatchSend ==
    /\ pf.pc = "loop"
    /\ pf.i < Len(pf.transactions)
    /\ Len(pf.txChan) < prefetchThread
    /\ pf' = [pf EXCEPT !.txChan = Append(@, pf.i), !.i = @ + 1]
    /\ PrefetchOnly

\* (a faulty variant of DispatchInterrupt: interruptCh is heeded only once txChan
\* has been drained)
DispatchInterruptWhenDrained ==
    /\ pf.pc = "loop"
    /\ pf.i < Len(pf.transactions)
    /\ pf.interruptCh = "closed"
    /\ pf.txChan = << >>
    /\ pf' = [pf EXCEPT !.pc = "returned"]
    /\ PrefetchOnly

\* case <-interruptCh: return (lines 89-90)
DispatchInterrupt ==
    /\ pf.pc = "loop"
    /\ pf.i < Len(pf.transactions)
    /\ pf.interruptCh = "closed"
    /\ pf' = [pf EXCEPT !.pc = "returned"]
    /\ PrefetchOnly

\* the loop condition fails and Prefetch returns (lines 86, 93)
DispatchDone ==
    /\ pf.pc = "loop"
    /\ pf.i = Len(pf.transactions)
    /\ pf' = [pf EXCEPT !.pc = "returned"]
    /\ PrefetchOnly

DispatchStep == DispatchSend \/ DispatchInterrupt \/ DispatchDone

\* the caller closes interruptCh
CloseInterrupt ==
    /\ pf.pc # "idle"
    /\ pf.interruptCh = "open"
    /\ pf' = [pf EXCEPT !.interruptCh = "closed"]
    /\ PrefetchOnly

InitPrefetch == Init

NextPrefetch ==
    \/ \E transactions \in PrefetchInputs : Prefetch(transactions)
    \/ DispatchStep
    \/ \E w \in PrefetchWorkers : WorkerStep(w)
    \/ CloseInterrupt

SpecPrefetch == InitPrefetch /\ [][NextPrefetch]_vars

\* The scheduler runs every goroutine that can take a step; nothing obliges the
\* caller to close interruptCh.
FairSpecPrefetch ==
    /\ SpecPrefetch
    /\ WF_vars(DispatchStep)
    /\ \A w \in PrefetchWorkers : WF_vars(WorkerStep(w))

InterruptClosed == pf.interruptCh = "closed"
PrefetchReturned == pf.pc = "returned"
WorkersExited == pf.pc # "idle" /\ \A w \in PrefetchWorkers : pf.workers[w].pc = "exited"
PrefetchOver == PrefetchReturned /\ WorkersExited

\* The dispatch loop is in its select with txChan full and interruptCh open.
SendBlocked ==
    /\ pf.pc = "loop"
    /\ pf.i < Len(pf.transactions)
    /\ Len(pf.txChan) = prefetchThread
    /\ ~InterruptClosed

\* ... and no worker is left to take an index out of txChan.
Starved == SendBlocked /\ WorkersExited

\* The transactions a worker has taken whose conversion failed.
FailedTaken ==
    {k \in 1..(pf.i - Len(pf.txChan)) : pf.transactions[k] = "bad"}

(* C34, as stated: every call of Prefetch returns, whatever the number of
   transactions and whichever conversions fail, even when interruptCh is never
   closed. With a scheduler that runs every goroutine able to step this says
   that a call with interruptCh open is never left in its dispatch loop with
   txChan full and every worker gone. *)
PrefetchReturnsUnaided == ~Starved

(* C34, amended: once interruptCh is closed the dispatch loop returns and every
   worker exits; while it stays open a call returns unless it is starved, and
   it is starved only when prefetchThread conversions have failed, so that all
   workers have left, and more than prefetchThread indices followed them. *)
PrefetchReturnsOrStarves ==
    /\ (pf.pc = "loop") ~> (PrefetchReturned \/ Starved)
    /\ InterruptClosed ~> PrefetchOver
    /\ [](Starved => /\ Cardinality(FailedTaken) = prefetchThread
                     /\ pf.i >= 2 * prefetchThread)

\* A starved call was released by closing interruptCh: it has returned with
\* indices left over and txChan still full.
PrefetchWitness ==
    /\ PrefetchOver
    /\ InterruptClosed
    /\ pf.i < Len(pf.transactions)
    /\ Len(pf.txChan) = prefetchThread
    /\ Cardinality(FailedTaken) = prefetchThread

-----------------------------------------------------------------------------
(* The vote journal (state_prefetcher.go, lines 660-766): WriteVote appends the
   marshalled vote to a write-ahead log and cuts the log's front so that the
   most recent maxSizeOfRecentEntry entries stay. The log is a
   github.com/tidwall/wal Log: indices firstIndex..lastIndex, firstIndex = 1
   and lastIndex = 0 while it is empty. *)

\* const maxSizeOfRecentEntry, line 661
maxSizeOfRecentEntry == 512

\* WriteVote calls in one run
MaxVotes == 4

\* target numbers of the votes written in a run
VoteTargets == {maxSizeOfRecentEntry + 1, maxSizeOfRecentEntry + 2}

\* the calls of WriteVote that may return an error
WalCalls == {"Marshal", "LastIndex", "Write", "FirstIndex", "TruncateFront"}

VoteEnvelope(target) == [TargetNumber |-> target]

\* json.Marshal(voteMessage)
jsonMarshal(vote) == <<"json", vote.TargetNumber>>

\* json.Unmarshal, as ReadVote applies it to an entry (lines 757-762)
jsonUnmarshal(data) == VoteEnvelope(data[2])

\* walLog.LastIndex()
walLastIndex(L) == L.lastIndex

\* walLog.FirstIndex(): 0 while the log is empty
walFirstIndex(L) == IF L.lastIndex = 0 THEN 0 ELSE L.firstIndex

\* walLog.Write(index, data): the index must follow the last one
walWrite(L, index, data) ==
    IF index # L.lastIndex + 1
    THEN [log |-> L, err |-> "out of order"]
    ELSE [log |-> [L EXCEPT !.lastIndex = index,
                            !.entries = [i \in L.firstIndex..index |->
                                            IF i = index THEN data ELSE L.entries[i]]],
          err |-> "nil"]

\* walLog.TruncateFront(index): the entries before index are removed
walTruncateFront(L, index) ==
    IF index = 0 \/ L.lastIndex = 0 \/ index < L.firstIndex \/ index > L.lastIndex
    THEN [log |-> L, err |-> "out of range"]
    ELSE [log |-> [L EXCEPT !.firstIndex = index,
                            !.entries = [i \in index..L.lastIndex |-> L.entries[i]]],
          err |-> "nil"]

\* voteDataBuffer.Add(key, value): the keys in order of use, the latest last;
\* the least recently used one leaves when the cache is full
lruAdd(cache, key) ==
    LET rest == SelectSeq(cache, LAMBDA k : k # key)
        all  == Append(rest, key)
    IN  IF Len(all) > maxSizeOfRecentEntry THEN Tail(all) ELSE all

\* the index handed to TruncateFront (line 740)
TruncateTarget(lastIndex) == lastIndex - maxSizeOfRecentEntry + 1

\* A log file left by an earlier run: votes for the targets first..last at the
\* indices first..last.
StoredLog(first, last) ==
    [firstIndex |-> first, lastIndex |-> last,
     entries |-> [i \in first..last |-> jsonMarshal(VoteEnvelope(i))]]

StoredLogs ==
    { EmptyLog,
      StoredLog(1, maxSizeOfRecentEntry - 2),
      StoredLog(4, maxSizeOfRecentEntry + 1),
      StoredLog(3, maxSizeOfRecentEntry + 2) }

\* The loop of lines 703-708: ReadVote and voteDataBuffer.Add for every index
\* from the first to the last. Adding the keys one after the other leaves them
\* in the order of their last use, the most recent maxSizeOfRecentEntry of them.
Reload(L) ==
    LET target(i) == jsonUnmarshal(L.entries[i]).TargetNumber
        indices   == [k \in 1..(L.lastIndex - L.firstIndex + 1) |-> L.firstIndex + k - 1]
        lastUse   == SelectSeq(indices,
                               LAMBDA i : \A j \in (i + 1)..L.lastIndex : target(j) # target(i))
        keys      == [k \in 1..Len(lastUse) |-> target(lastUse[k])]
    IN  IF Len(keys) > maxSizeOfRecentEntry
        THEN SubSeq(keys, Len(keys) - maxSizeOfRecentEntry + 1, Len(keys))
        ELSE keys

JournalOnly == OthersIdle /\ UNCHANGED pf

\* NewVoteJournal(filePath), lines 675-711, on the log file stored at filePath
NewVoteJournal(stored) ==
    /\ vj.pc = "none"
    /\ vj' = [IdleJournal EXCEPT !.pc = "open", !.walLog = stored,
                                 !.written = stored.entries,
                                 !.voteDataBuffer =
                                     Reload(stored)]
    /\ JournalOnly

\* What WriteVote(voteMessage) makes of the journal J when the calls in failing
\* return an error (lines 713-747).
writeVote(J, voteMessage, failing) ==
    LET vote      == jsonMarshal(voteMessage)
        lastIndex == walLastIndex(J.walLog) + 1
        w         == IF "Write" \in failing
                     THEN [log |-> J.walLog, err |-> "write failed"]
                     ELSE walWrite(J.walLog, lastIndex, vote)
        firstIndex == IF "FirstIndex" \in failing THEN 0 ELSE walFirstIndex(w.log)
        cut       == lastIndex - firstIndex + 1 > maxSizeOfRecentEntry
        t         == IF ~cut THEN [log |-> w.log, err |-> "nil"]
                     ELSE IF "TruncateFront" \in failing
                          THEN [log |-> w.log, err |-> "truncate failed"]
                          ELSE walTruncateFront(w.log, TruncateTarget(lastIndex))
        called    == [J EXCEPT !.calls = @ + 1, !.prevLast = walLastIndex(J.walLog),
                               !.truncateErr = FALSE]
    IN  IF "Marshal" \in failing THEN [called EXCEPT !.err = "marshal failed"]
        ELSE IF "LastIndex" \in failing THEN [called EXCEPT !.err = "last index failed"]
        ELSE IF w.err # "nil" THEN [called EXCEPT !.err = w.err]
        ELSE [called EXCEPT
                 !.walLog = t.log,
                 !.written = [i \in (DOMAIN J.written) \cup {lastIndex} |->
                                 IF i = lastIndex THEN vote ELSE J.written[i]],
                 !.truncateErr = (t.err # "nil"),
                 !.voteDataBuffer = lruAdd(@, voteMessage.TargetNumber),
                 !.err = "nil"]

WriteVote(voteMessage, failing) ==
    /\ vj.pc = "open"
    /\ vj.calls < MaxVotes
    /\ vj' = writeVote(vj, voteMessage, failing)
    /\ JournalOnly

InitJournal == Init

NextJournal ==
    \/ \E stored \in StoredLogs : NewVoteJournal(stored)
    \/ \E target \in VoteTargets, failing \in SUBSET WalCalls :
          WriteVote(VoteEnvelope(target), failing)

SpecJournal == InitJournal /\ [][NextJournal]_vars

\* The latest WriteVote returned nil.
VoteWritten == vj.pc = "open" /\ vj.calls > 0 /\ vj.err = "nil"

LogSize(L) == L.lastIndex - L.firstIndex + 1

\* The log holds the indices firstIndex..lastIndex, the last one being the one
\* the latest WriteVote wrote, one past the last index it found; every entry is
\* the one written at its index.
LogEndsAtWrittenIndex ==
    /\ DOMAIN vj.walLog.entries = vj.walLog.firstIndex..vj.walLog.lastIndex
    /\ vj.walLog.lastIndex = vj.prevLast + 1
    /\ \A i \in DOMAIN vj.walLog.entries : vj.walLog.entries[i] = vj.written[i]
    /\ DOMAIN vj.written \ DOMAIN vj.walLog.entries \subseteq 1..(vj.walLog.firstIndex - 1)

(* C35: after every successful WriteVote the log holds at most
   maxSizeOfRecentEntry entries, with contiguous indices ending at the index
   just written, which is the last index + 1. *)
JournalKeepsRecentEntries ==
    VoteWritten =>
        /\ LogEndsAtWrittenIndex
        /\ LogSize(vj.walLog) <= maxSizeOfRecentEntry

\* What WriteVote does keep: after every call that returns nil the log holds
\* contiguous indices ending at the index just written, which is the last
\* index + 1, and the entries written at them; it holds at most
\* maxSizeOfRecentEntry entries unless TruncateFront failed in that call, which
\* lines 740-742 only log.
JournalKeepsRecentEntriesUnlessTruncateFails ==
    VoteWritten =>
        /\ LogEndsAtWrittenIndex
        /\ ~vj.truncateErr => LogSize(vj.walLog) <= maxSizeOfRecentEntry

\* A WriteVote has cut the front of a log that an earlier, failed truncation
\* had left too long.
JournalWitness ==
    /\ VoteWritten
    /\ ~vj.truncateErr
    /\ LogSize(vj.walLog) = maxSizeOfRecentEntry
    /\ LogSize(vj.walLog) + 2 <= Cardinality(DOMAIN vj.written)

====
